---- MODULE Spec2Model ----
(***************************************************************************)
(* Hotel extraction pipeline: adaptive rate limiter, parallel hotel        *)
(* processors (in-memory and database-backed) and the session watchdog.    *)
(*                                                                         *)
(* The specifications share the variables of the module:                   *)
(*   SpecLimiter   modules/rate_limiter.py         (time unit: 1 second)   *)
(*   SpecHotel     _process_single_hotel of both processors                *)
(*   SpecParallel  modules/parallel_processor.py                           *)
(*   SpecWatchdog  modules/database_service.py on orphan sessions          *)
(*   SpecSession   modules/parallel_processor_db.py, database_service.py,  *)
(*                 supabase_client.py              (time unit: 1 minute)   *)
(*   SpecSessionFair  SpecSession with a watchdog that keeps running       *)
(*   SpecProcessors   the batch schedulers of both processors              *)
(*   SpecCache     cache/gmaps_cache.py            (time unit: 1 second)   *)
(*   SpecExtractor modules/processors/data_extractor.py                    *)
(*   SpecCvent     the Cvent executors of the hotel tasks of a processor   *)
(*   SpecBackoff   rate_limiter.py under a run of errors                   *)
(*   SpecGmaps     extract_hotels_batch of modules/gmaps_extractor.py      *)
(*   SpecCallback  a processor run reporting to a progress callback        *)
(*   SpecCacheDisk cache/gmaps_cache.py with cleanup_expired and its file  *)
(*   SpecSnapshot  the cache with a snapshot damaged or not written       *)
(*   SpecRetry     retry_on_error of modules/supabase_client.py            *)
(*   SpecPersist   a batch prepared and saved by _process_and_save_batch   *)
(*   SpecReconcile a watchdog run over several sessions, the store failing *)
(***************************************************************************)
EXTENDS Integers, Sequences, FiniteSets, TLC

(***************************************************************************)
(* Bounds of the limiter model.                                            *)
(***************************************************************************)
MaxTasks == 2
MaxTime == 1
MaxErrors == 1
MaxRps == 1
MaxStreak == 6

\* bounds of the batch schedulers
MaxHotels == 3
MaxBatchSize == 2
MaxWorkers == 2

\* bounds of the session model
MaxSessions == 1
MaxRows == 2
MaxItems == 2

\* bounds of the Google Maps batch extraction
MaxPasses == 2
MaxPlaces == 2
MaxBatch == 2

\* bound of the batch saved to the store
MaxTxHotels == 2

\* bound of the calls of a decorated operation
MaxRetryCalls == 3

\* bounds of the watchdog run with store errors
MaxStuck == 2
MaxStoreErrors == 1

\* bound of the runs with a progress callback
MaxCbHotels == 3

\* bounds of the cache model
MaxCacheCalls == 3
MaxClock == 2
MaxTtl == 1

\* acquire calls per run, and the per-minute cap that goes with the per-second cap
MaxCalls == MaxTasks + 1
MaxRpm == MaxRps + 1

(***************************************************************************)
(* Program constants of the limiter.                                       *)
(***************************************************************************)
SecondWindow == 1
MinuteWindow == 60
Base429 == 10
Cap429 == 60
MaxExp429 == 3
Step5xx == 5
Cap5xx == 15
DownThreshold == 5
DownCooldown == 5

\* @retry_on_error(max_retries=3), and its default delay
max_retries == 3
delay == 1

\* the search queries _build_search_queries builds for a hotel
QueryCount == 4

\* minutes without activity after which the watchdog takes a session for dead
InactivityThreshold == 3

VARIABLES
    \* ---- RateLimiter (rate_limiter.py) ----
    now,                \* time.time(), in seconds
    config,             \* RateLimitConfig of the limiter
    requests_history,   \* self.requests_history
    is_cooling_down,    \* self.is_cooling_down
    cooldown_until,     \* self.cooldown_until
    consecutive_errors, \* self.consecutive_errors
    reported,           \* number of handle_error calls so far
    acq,                \* per task: position inside acquire and its locals
    granted,            \* every request recorded by acquire so far:
                        \* [at: its time, cooling: a cooldown was active then]
    lock                \* self.lock: the task that holds it, 0 when it is free

VARIABLES
    \* ---- one hotel through _process_single_hotel ----
    processor,          \* the class whose _process_single_hotel runs
    extract,            \* extract_cvent, extract_gmaps, extract_website
    phase,              \* "pending", "phase1", "phase2", "done"
    source,             \* per source: the state or the outcome of its task
    result              \* the value returned by _process_single_hotel

VARIABLES
    \* ---- ParallelHotelProcessor.process_hotels_parallel ----
    hotels_in,          \* hotels_data: the submitted hotels
    settings,           \* batch_size, max_workers, extract_website
    batches,            \* the batches built by _create_batches
    batch_state,        \* per batch: "waiting", "running", "returned", "raised"
    batch_results,      \* per batch: the results gathered so far
    run,                \* "new", "running", "returned"
    returned            \* the list returned by process_hotels_parallel

VARIABLES
    \* ---- the store, the database-backed scheduler and the watchdog ----
    sessions,           \* table extraction_sessions: status, total_hotels, processed_hotels, idle
    hotel_rows,         \* table hotels: per session, the extraction_status of its rows
    db_run,             \* process_hotels_to_database: "absent", "created", "running",
                        \* "finalizing", "returned", "crashed"
    db_config,          \* number of hotels submitted, batch_size, max_workers
    db_batches,         \* the batches of the run
    task,               \* per batch: state, the rows it inserted, its result, whether it raised
    fin,                \* per caller: the finalize_session call in progress
    wd,                 \* the watchdog run: position and the sessions still to look at
    audit               \* per session: declared total at creation, who reconciled it

VARIABLES
    \* ---- GoogleMapsCache ----
    clock,              \* time.time(), in seconds
    ttl,                \* self.ttl, the ttl given to the entries being set
    _data,              \* self._data: key -> [timestamp, value, ttl]
    hits,               \* self.hits
    misses,             \* self.misses
    expired,            \* self.expired
    last,               \* the last call: its arguments, what it returned, the cache before it
    lapsed,             \* keys whose entry a get found expired, not set again since
    cache_file,         \* self.cache_file on the disk: [exists, text]
    on_disk,            \* the entries _save_to_disk wrote to the file
    intact,             \* keys loaded by the last initialize, neither set nor deleted since
    data_type           \* the Python type of self._data: "dict", or "list" after a load

VARIABLES
    \* ---- DataExtractor._process_batch (processors/data_extractor.py) ----
    extractor_settings, \* settings.parallel: max_workers
    extractor_batch,    \* number of hotels of the batch
    extractor_tasks,    \* per hotel: its process_hotel task, "created", "processing", "done"
    semaphore,          \* per hotel: process_with_semaphore, "waiting", "inside", "left"
    extractor_run       \* "new", "gathering", "returned"

VARIABLES
    \* ---- the hotel tasks of a processor in phase 1, on one event loop ----
    cvent_config,       \* max_workers, batch_size
    cvent_call,         \* per hotel task: _extract_cvent_async, "pending", "waiting",
                        \* "ok", "timeout"
    executor,           \* per hotel task: the worker thread of its own
                        \* ThreadPoolExecutor, "none", "running", "finished"
    gmaps_call,         \* per hotel task: _extract_gmaps_async, "pending", "waiting",
                        \* "ok", "failed"
    loop                \* 0 when the event loop runs, else the hotel task whose
                        \* executor shutdown it is blocked in

VARIABLES
    \* ---- one batch saved by _process_and_save_batch ----
    tx_hotels,          \* per hotel of the batch: which sources produced data
    tx_ids,             \* per hotel of the batch: its 'hotel_id', 0 when it has none
    tx_rows,            \* table hotels and the data tables: per hotel inserted, its row
                        \* and whether its rooms, Google Maps and website rows exist
    tx_index,           \* the result process_batch_results is at
    tx_counts,          \* success_count and error_count of process_batch_results
    tx_pc               \* where the processing of that result is

VARIABLES
    \* ---- calls of an operation decorated with retry_on_error ----
    retry_calls,        \* the calls that are over: [outcomes, slept, ret]
    retry_attempt,      \* the loop variable `attempt` of the call in progress
    retry_outcomes,     \* what func did at each attempt of the call in progress
    retry_slept,        \* the arguments of time.sleep in the call in progress
    retry_pc            \* "absent", "idle", "attempt", "sleep"

VARIABLES
    \* ---- store errors during a watchdog run ----
    store_errors        \* the store calls of the watchdog that raised, in order:
                        \* [sid: the session being reconciled (0: none yet),
                        \*  at: the call]

VARIABLES
    \* ---- a processor run with a progress callback ----
    cb_processor,       \* the code that runs the batch: "sequential" and "tracked" are the
                        \* two modes of ParallelHotelProcessor, "db" is ParallelHotelProcessorDB
    progress_callback,  \* the callback: [is_async], whether it is a coroutine function
    cb_left,            \* the hotels of the batch still to process
    progress,           \* the run: results, the reporter's counters, where it is
    reference,          \* the same run with a callback that never raises
    cb_raised           \* number of calls in which the callback raised so far

VARIABLES
    \* ---- extract_hotels_batch (gmaps_extractor.py) ----
    passes,             \* number of extract_hotels_batch calls so far
    hotels_info,        \* the hotels of the current call
    gmaps_results,      \* results: per hotel, None or its result
    hotels_to_fetch,    \* the indexes still to extract, the first being extracted
    responses,          \* the responses to the requests sent for that hotel, in order
    api_cache,          \* the hotels the global cache holds a fresh entry for
    api_errors,         \* consecutive_errors of the 'google_maps' limiter
    fetched,            \* per hotel extracted in this call: its status and the error
                        \* counter before and after the code that follows the fetch
    fetched_ok,         \* the hotels a fetch has succeeded for, in any call
    gmaps_pc            \* "idle", "fetching", "returned"

limiterVars == <<now, config, requests_history, is_cooling_down, cooldown_until,
                 consecutive_errors, reported, acq, granted, lock>>

hotelVars == <<processor, extract, phase, source, result>>

parallelVars == <<hotels_in, settings, batches, batch_state, batch_results, run, returned>>

schedVars == <<db_run, db_config, db_batches, task>>

sessionVars == <<sessions, hotel_rows, schedVars, fin, wd, audit>>

cacheVars == <<clock, ttl, _data, hits, misses, expired, last, lapsed, cache_file, on_disk,
               intact, data_type>>
extractorVars == <<extractor_settings, extractor_batch, extractor_tasks, semaphore,
                   extractor_run>>
cventVars == <<cvent_config, cvent_call, executor, gmaps_call, loop>>
retryVars == <<retry_calls, retry_attempt, retry_outcomes, retry_slept, retry_pc>>
persistVars == <<tx_hotels, tx_ids, tx_rows, tx_index, tx_counts, tx_pc>>
faultVars == <<store_errors>>
moreVars == <<retryVars, persistVars, faultVars>>
callbackVars == <<cb_processor, progress_callback, cb_left, progress, reference, cb_raised>>
gmapsVars == <<passes, hotels_info, gmaps_results, hotels_to_fetch, responses, api_cache,
               api_errors, fetched, fetched_ok, gmaps_pc>>

vars == <<limiterVars, hotelVars, parallelVars, sessionVars, cacheVars, extractorVars,
         cventVars, gmapsVars, callbackVars, moreVars>>

baseVars == <<limiterVars, hotelVars, parallelVars, sessionVars, cacheVars, extractorVars,
             cventVars, gmapsVars, callbackVars>>
otherVars == <<limiterVars, hotelVars, parallelVars, cacheVars, extractorVars, cventVars,
              gmapsVars, callbackVars, moreVars>>

Tasks == 1..MaxTasks

NoCacheCall == [op |-> "none", n |-> 0]

\* DataExtractor._process_batch has not been called
ExtractorIdle ==
    /\ extractor_settings = [max_workers |-> 1]
    /\ extractor_batch = 0
    /\ extractor_tasks = <<>>
    /\ semaphore = <<>>
    /\ extractor_run = "absent"

\* no hotel task is in phase 1
CventIdle ==
    /\ cvent_config = [max_workers |-> 1, batch_size |-> 1]
    /\ cvent_call = <<>>
    /\ executor = <<>>
    /\ gmaps_call = <<>>
    /\ loop = 0

\* no decorated operation is called
RetryIdle ==
    /\ retry_calls = <<>>
    /\ retry_attempt = 0
    /\ retry_outcomes = <<>>
    /\ retry_slept = <<>>
    /\ retry_pc = "absent"

\* no batch is saved
PersistIdle ==
    /\ tx_hotels = <<>>
    /\ tx_ids = <<>>
    /\ tx_rows = <<>>
    /\ tx_index = 0
    /\ tx_counts = [success |-> 0, errors |-> 0]
    /\ tx_pc = "absent"

\* the components defined last are idle
\* no store error raised
FaultIdle == store_errors = <<>>

MoreIdle ==
    /\ RetryIdle
    /\ PersistIdle
    /\ FaultIdle

\* no run with a progress callback
CallbackIdle ==
    /\ cb_processor = "absent"
    /\ progress_callback = [is_async |-> FALSE]
    /\ cb_left = 0
    /\ progress = <<>>
    /\ reference = <<>>
    /\ cb_raised = 0

\* extract_hotels_batch has not been called
GmapsIdle ==
    /\ passes = 0
    /\ hotels_info = <<>>
    /\ gmaps_results = <<>>
    /\ hotels_to_fetch = <<>>
    /\ responses = <<>>
    /\ api_cache = {}
    /\ api_errors = 0
    /\ fetched = <<>>
    /\ fetched_ok = {}
    /\ gmaps_pc = "absent"

\* an empty cache nobody calls
CacheIdle ==
    /\ clock = 0
    /\ ttl = 0
    /\ _data = <<>>
    /\ hits = 0
    /\ misses = 0
    /\ expired = 0
    /\ last = NoCacheCall
    /\ lapsed = {}
    /\ cache_file = [exists |-> FALSE]
    /\ on_disk = <<>>
    /\ intact = {}
    /\ data_type = "dict"

\* no session, no database run, no watchdog run
SessionIdle ==
    /\ sessions = <<>>
    /\ hotel_rows = <<>>
    /\ db_run = "absent"
    /\ db_config = [hotels |-> 0, batch_size |-> 1, max_workers |-> 1]
    /\ db_batches = <<>>
    /\ task = <<>>
    /\ fin = <<>>
    /\ wd = [pc |-> "idle", queue |-> <<>>]
    /\ audit = <<>>

\* process_hotels_parallel has not been called
ParallelIdle ==
    /\ hotels_in = <<>>
    /\ settings = [batch_size |-> 1, max_workers |-> 1, extract_website |-> FALSE]
    /\ batches = <<>>
    /\ batch_state = <<>>
    /\ batch_results = <<>>
    /\ run = "new"
    /\ returned = <<>>

\* no hotel is being processed
HotelIdle ==
    /\ processor = "none"
    /\ extract = [cvent |-> FALSE, gmaps |-> FALSE, website |-> FALSE]
    /\ phase = "pending"
    /\ source = [cvent |-> "off", gmaps |-> "off", website |-> "off"]
    /\ result = "none"

Min(a, b) == IF a <= b THEN a ELSE b
Max(a, b) == IF a >= b THEN a ELSE b

RECURSIVE Pow2(_)
Pow2(n) == IF n = 0 THEN 1 ELSE 2 * Pow2(n - 1)

RECURSIVE SeqMin(_)
SeqMin(s) == IF Len(s) = 1 THEN s[1] ELSE Min(s[1], SeqMin(Tail(s)))

(***************************************************************************)
(* RateLimiter                                                             *)
(***************************************************************************)

RateLimitConfigs ==
    [requests_per_second : 1..MaxRps, requests_per_minute : {MaxRpm}]

\* _clean_history: keep the requests of the last minute
_clean_history(history, current_time) ==
    LET Recent(req_time) == req_time > current_time - MinuteWindow
    IN  SelectSeq(history, Recent)

\* the requests of the last second
recent_requests(history, current_time) ==
    LET Recent(req_time) == req_time > current_time - SecondWindow
    IN  SelectSeq(history, Recent)

\* _should_wait
_should_wait(history, current_time, cfg) ==
    \/ Len(history) >= cfg.requests_per_minute
    \/ Len(recent_requests(history, current_time)) >= cfg.requests_per_second

\* _calculate_wait_time
_calculate_wait_time(history, current_time, cfg) ==
    IF Len(history) >= cfg.requests_per_minute
    THEN Max(0, MinuteWindow - (current_time - SeqMin(history)))
    ELSE IF Len(recent_requests(history, current_time)) > 0
         THEN Max(0, SecondWindow
                      - (current_time - SeqMin(recent_requests(history, current_time))))
         ELSE 0

\* a cooldown is active (lines 43, 174)
CooldownActive == is_cooling_down /\ now < cooldown_until

\* the acquire calls started so far: returned or suspended
Calls == Len(granted) + Cardinality({t \in Tasks : acq[t].pc # "idle"})

\* the request is recorded: self.requests_history.append(time.time())
Record(history) ==
    /\ requests_history' = Append(history, now)
    /\ granted' = Append(granted, [at |-> now, cooling |-> CooldownActive])

Idle == [pc |-> "idle", wake |-> 0, current_time |-> 0]

\* the sleep is inside the `async with self.lock` block
asleep_in_lock(t) == t

\* who holds the lock while task t sleeps in acquire: the `async with
\* self.lock` blocks end before `await asyncio.sleep` (lines 45-51, 58-71)
held_while_asleep(t) == 0

\* `async with self.lock` can be entered by task t
LockFree(t) == lock \in {0, t}

\* acquire, second half (lines 53-76): the locked check, then either the
\* sleep outside the lock or, without any suspension, the recording.
CheckAndRecord(t) ==
    LET history == _clean_history(requests_history, now)
        wait_time == IF _should_wait(history, now, config)
                     THEN _calculate_wait_time(history, now, config)
                     ELSE 0
    IN  /\ LockFree(t)
        /\ IF wait_time > 0
           THEN /\ requests_history' = history
                /\ acq' = [acq EXCEPT ![t] = [pc |-> "rate_sleep", wake |-> now + wait_time,
                                              current_time |-> now]]
                /\ lock' = held_while_asleep(t)
                /\ UNCHANGED granted
           ELSE /\ Record(history)
                /\ acq' = [acq EXCEPT ![t] = Idle]
                /\ lock' = 0

\* acquire, from the call to its first suspension (or to its return)
AcquireStart(t) ==
    /\ UNCHANGED <<hotelVars, parallelVars, sessionVars, cacheVars, extractorVars, cventVars, gmapsVars, callbackVars, moreVars>>
    /\ acq[t].pc = "idle"
    /\ Calls < MaxCalls
    /\ IF is_cooling_down /\ now < cooldown_until
       THEN /\ acq' = [acq EXCEPT ![t] = [pc |-> "cooldown_sleep",
                                          wake |-> cooldown_until,
                                          current_time |-> now]]
            /\ lock' = IF lock = t THEN held_while_asleep(t) ELSE lock
            /\ UNCHANGED <<requests_history, granted>>
       ELSE CheckAndRecord(t)
    /\ UNCHANGED <<now, config, is_cooling_down, cooldown_until, consecutive_errors, reported>>

\* acquire resumes after the cooldown sleep (lines 48-76)
AcquireAfterCooldown(t) ==
    /\ UNCHANGED <<hotelVars, parallelVars, sessionVars, cacheVars, extractorVars, cventVars, gmapsVars, callbackVars, moreVars>>
    /\ acq[t].pc = "cooldown_sleep"
    /\ now >= acq[t].wake
    /\ is_cooling_down' = IF acq[t].current_time >= cooldown_until
                          THEN FALSE ELSE is_cooling_down
    /\ CheckAndRecord(t)
    /\ UNCHANGED <<now, config, cooldown_until, consecutive_errors, reported>>

\* acquire resumes after the rate sleep (lines 73-76)
AcquireAfterWait(t) ==
    /\ UNCHANGED <<hotelVars, parallelVars, sessionVars, cacheVars, extractorVars, cventVars, gmapsVars, callbackVars, moreVars>>
    /\ acq[t].pc = "rate_sleep"
    /\ now >= acq[t].wake
    /\ LockFree(t)
    /\ Record(requests_history)
    /\ acq' = [acq EXCEPT ![t] = Idle]
    /\ lock' = 0
    /\ UNCHANGED <<now, config, is_cooling_down, cooldown_until, consecutive_errors, reported>>

uncapped_429(errors) == Base429 * Pow2(errors)

growing_5xx(errors) == Step5xx * errors

\* the cooldown of a 429
cooldown_429(errors) == Min(Base429 * Pow2(Min(errors, MaxExp429)), Cap429)

\* the cooldown of a 5xx
cooldown_5xx(errors) ==
    IF errors >= DownThreshold THEN DownCooldown ELSE Min(Step5xx * errors, Cap5xx)

StatusCodes == {404, 429, 503}

handle_error(status_code) ==
    /\ UNCHANGED <<hotelVars, parallelVars, sessionVars, cacheVars, extractorVars, cventVars, gmapsVars, callbackVars, moreVars>>
    /\ lock = 0
    /\ reported' = reported + 1
    /\ IF status_code = 429
       THEN /\ consecutive_errors' = consecutive_errors + 1
            /\ is_cooling_down' = TRUE
            /\ cooldown_until' = now + cooldown_429(consecutive_errors + 1)
       ELSE IF 500 <= status_code /\ status_code < 600
       THEN /\ consecutive_errors' = consecutive_errors + 1
            /\ is_cooling_down' = TRUE
            /\ cooldown_until' = now + cooldown_5xx(consecutive_errors + 1)
       ELSE UNCHANGED <<consecutive_errors, is_cooling_down, cooldown_until>>
    /\ UNCHANGED <<now, config, requests_history, acq, granted, lock>>

HandleError ==
    /\ reported < MaxErrors
    /\ \E status_code \in StatusCodes : handle_error(status_code)

reset_errors ==
    /\ UNCHANGED <<hotelVars, parallelVars, sessionVars, cacheVars, extractorVars, cventVars, gmapsVars, callbackVars, moreVars>>
    /\ consecutive_errors > 0
    /\ consecutive_errors' = 0
    /\ UNCHANGED <<now, config, requests_history, is_cooling_down, cooldown_until,
                   reported, acq, granted, lock>>

\* one second passes
Tick ==
    /\ UNCHANGED <<hotelVars, parallelVars, sessionVars, cacheVars, extractorVars, cventVars, gmapsVars, callbackVars, moreVars>>
    /\ now < MaxTime
    /\ now' = now + 1
    /\ UNCHANGED <<config, requests_history, is_cooling_down, cooldown_until,
                   consecutive_errors, reported, acq, granted, lock>>

\* nothing else happens until the sleep of a suspended acquire is over
SleepUntilWake ==
    /\ UNCHANGED <<hotelVars, parallelVars, sessionVars, cacheVars, extractorVars, cventVars, gmapsVars, callbackVars, moreVars>>
    /\ \E t \in Tasks :
          /\ acq[t].pc # "idle"
          /\ acq[t].wake > now
          /\ now' = acq[t].wake
    /\ UNCHANGED <<config, requests_history, is_cooling_down, cooldown_until,
                   consecutive_errors, reported, acq, granted, lock>>

\* the limiter before its first call (__init__)
LimiterIdle ==
    /\ now = 0
    /\ config = [requests_per_second |-> 1, requests_per_minute |-> MinuteWindow]
    /\ requests_history = <<>>
    /\ is_cooling_down = FALSE
    /\ cooldown_until = 0
    /\ consecutive_errors = 0
    /\ reported = 0
    /\ acq = [t \in Tasks |-> Idle]
    /\ granted = <<>>
    /\ lock = 0

LimiterInit ==
    /\ CacheIdle
    /\ ExtractorIdle
    /\ CventIdle
    /\ GmapsIdle
    /\ CallbackIdle
    /\ MoreIdle
    /\ HotelIdle
    /\ ParallelIdle
    /\ SessionIdle
    /\ now = 0
    /\ config \in RateLimitConfigs
    /\ requests_history = <<>>
    /\ is_cooling_down = FALSE
    /\ cooldown_until = 0
    /\ consecutive_errors = 0
    /\ reported = 0
    /\ acq = [t \in Tasks |-> Idle]
    /\ granted = <<>>
    /\ lock = 0

AcquireStep == \E t \in Tasks : AcquireStart(t)
CooldownWake == \E t \in Tasks : AcquireAfterCooldown(t)
WaitWake == \E t \in Tasks : AcquireAfterWait(t)

LimiterNext ==
    \/ AcquireStep
    \/ CooldownWake
    \/ WaitWake
    \/ HandleError
    \/ reset_errors
    \/ Tick
    \/ SleepUntilWake

SpecLimiter == LimiterInit /\ [][LimiterNext]_vars

(***************************************************************************)
(* The limiter under a run of errors: handle_error and reset_errors only   *)
(***************************************************************************)

ErrorRun ==
    /\ reported < MaxStreak
    /\ \E status_code \in StatusCodes : handle_error(status_code)

BackoffNext ==
    \/ ErrorRun
    \/ reset_errors
    \/ Tick

SpecBackoff == LimiterInit /\ [][BackoffNext]_vars

(***************************************************************************)
(* Claims about the rate limiter                                           *)
(***************************************************************************)

\* the tasks asleep inside acquire
Sleepers == {t \in Tasks : acq[t].pc \in {"cooldown_sleep", "rate_sleep"}}

\* C35: no task holds the limiter's lock while it sleeps inside acquire:
\* whenever a task is sleeping, for a cooldown or for a rate wait, another
\* task can take the lock, so that concurrent acquire and handle_error calls
\* are never blocked by the sleeper.
C35_NoLockWhileSleeping ==
    Sleepers # {} =>
        /\ lock = 0
        /\ \A u \in Tasks :
              (acq[u].pc = "idle" /\ Calls < MaxCalls) => ENABLED AcquireStart(u)
        /\ \A status_code \in StatusCodes : ENABLED handle_error(status_code)

\* a task sleeps for the rate limit while another one is in its cooldown sleep
C35_Witness ==
    /\ \E t \in Tasks : acq[t].pc = "rate_sleep"
    /\ \E t \in Tasks : acq[t].pc = "cooldown_sleep"

\* C38: a call of handle_error never shortens an active cooldown: for every
\* status code and every prior state, cooldown_until after the call is at
\* least cooldown_until before the call.
C38_CooldownNeverShortened ==
    [][(\E status_code \in StatusCodes : handle_error(status_code))
          => cooldown_until' >= cooldown_until]_vars

\* the requests recorded in the window of the given length that ends with request i
InWindow(i, length) ==
    {j \in 1..Len(granted) :
        granted[j].at > granted[i].at - length /\ granted[j].at <= granted[i].at}

\* C1: the requests recorded by acquire never number more than
\* requests_per_second inside a sliding 1-second window, nor more than
\* requests_per_minute inside a sliding 60-second window.
C1_SlidingWindowCaps ==
    \A i \in 1..Len(granted) :
        /\ Cardinality(InWindow(i, SecondWindow)) <= config.requests_per_second
        /\ Cardinality(InWindow(i, MinuteWindow)) <= config.requests_per_minute

\* C5: no acquire records a request while a cooldown is active, that is at a
\* time earlier than the limiter's cooldown_until of that moment.
C5_NoRequestDuringCooldown ==
    \A i \in 1..Len(granted) : ~granted[i].cooling

\* the cooldowns of the claim for k = 1, 2, 3, 4, ...
Backoff429(k) == CASE k = 1 -> 20 [] k = 2 -> 40 [] OTHER -> 60

\* C23: a 429 reported to handle_error sets cooldown_until to
\* now + min(10 * 2^min(k, 3), 60) seconds, k being the consecutive-error
\* count after counting this error (20, 40, 60, 60, ... seconds), so a 429
\* cooldown never exceeds 60 seconds and never decreases as k grows.
C23_Cooldown429 ==
    [][handle_error(429) =>
          LET k == consecutive_errors'
          IN  /\ k = consecutive_errors + 1
              /\ is_cooling_down'
              /\ cooldown_until' = now + Min(10 * Pow2(Min(k, 3)), 60)
              /\ cooldown_until' = now + Backoff429(k)
              /\ cooldown_until' - now <= 60
              /\ k > 1 => cooldown_until' - now >= Backoff429(k - 1)]_vars

\* the fourth 429 in a row has just been reported: 60 seconds again
C23_Witness ==
    /\ consecutive_errors = 4
    /\ is_cooling_down
    /\ cooldown_until = now + 60

\* the cooldowns of the claim for n = 1, 2, 3, 4 and for n >= 5
Backoff5xx(n) == CASE n = 1 -> 5 [] n = 2 -> 10 [] n \in {3, 4} -> 15 [] OTHER -> 5

\* C24: a 5xx reported to handle_error sets a cooldown of min(5 * n, 15)
\* seconds while the consecutive-error count n (after counting this error) is
\* below 5, and of exactly 5 seconds once n >= 5, so under sustained 5xx
\* errors the cooldown never exceeds 15 seconds and does not keep growing.
C24_Cooldown5xx ==
    [][handle_error(503) =>
          LET n == consecutive_errors'
          IN  /\ n = consecutive_errors + 1
              /\ is_cooling_down'
              /\ cooldown_until' = now + (IF n < 5 THEN Min(5 * n, 15) ELSE 5)
              /\ cooldown_until' = now + Backoff5xx(n)
              /\ cooldown_until' - now <= 15]_vars

\* the sixth error in a row was a 5xx: the minimal cooldown
C24_Witness ==
    /\ consecutive_errors = 6
    /\ is_cooling_down
    /\ cooldown_until = now + 5

(***************************************************************************)
(* _process_single_hotel of ParallelHotelProcessor (parallel_processor.py) *)
(* and of ParallelHotelProcessorDB (parallel_processor_db.py): one hotel,  *)
(* Phase 1 (Cvent and Google Maps side by side), then Phase 2 (website).   *)
(*                                                                         *)
(* Outcome of a source task:                                               *)
(*   "ok"         a successful extraction (for gmaps: with a website url)  *)
(*   "ok_nosite"  gmaps: extraction_status 'success', no website url       *)
(*   "ok_empty"   website: success without website_data                    *)
(*   "failed"     a result that reports the failure                        *)
(*   "exception"  the call raised                                          *)
(*   "timeout"    asyncio.wait_for gave up and the wrapper raised          *)
(***************************************************************************)

Processors == {"ParallelHotelProcessor", "ParallelHotelProcessorDB"}

Raised == {"exception", "timeout"}

Outcomes(src) ==
    CASE src = "cvent"   -> {"ok", "failed"} \cup Raised
      [] src = "gmaps"   -> {"ok", "ok_nosite", "failed"} \cup Raised
      [] src = "website" -> {"ok", "ok_empty", "failed"} \cup Raised

Phase1Sources == {"cvent", "gmaps"}

\* the source returned a successful extraction
Succeeded(outcome) == outcome \in {"ok", "ok_nosite", "ok_empty"}

\* the source was attempted and did not succeed
Failed(outcome) == outcome \in {"failed"} \cup Raised

\* ParallelHotelProcessor._consolidate_hotel_results; errors: the sources
\* whose error message is appended to consolidated['errors']
_consolidate_hotel_results(results) ==
    LET cvent_data   == results.cvent = "ok"
        gmaps_data   == results.gmaps \in {"ok", "ok_nosite"}
        website_data == results.website = "ok"
    IN  [success      |-> cvent_data \/ gmaps_data \/ website_data,
         cvent_data   |-> IF cvent_data THEN results.cvent ELSE "None",
         gmaps_data   |-> IF gmaps_data THEN results.gmaps ELSE "None",
         website_data |-> IF website_data THEN results.website ELSE "None",
         errors       |-> {src \in {"cvent", "gmaps", "website"} : results[src] = "failed"}]

\* what ParallelHotelProcessorDB keeps of a task: its result, None if it raised
Kept(outcome) == IF outcome \in {"ok", "ok_nosite", "ok_empty", "failed"} THEN outcome ELSE "None"

\* the result built by ParallelHotelProcessorDB._process_single_hotel
db_result(results) ==
    [success      |-> TRUE,
     cvent_data   |-> Kept(results.cvent),
     gmaps_data   |-> Kept(results.gmaps),
     website_data |-> Kept(results.website),
     errors       |-> {}]

Consolidated(results) ==
    IF processor = "ParallelHotelProcessor"
    THEN _consolidate_hotel_results(results)
    ELSE db_result(results)

\* Phase 2 is run: ParallelHotelProcessor calls the website extractor whenever
\* extract_website is set, ParallelHotelProcessorDB only with a url from gmaps
RunsPhase2 ==
    /\ extract.website
    /\ processor = "ParallelHotelProcessorDB" => source.gmaps = "ok"

\* Phase 1 is launched: one task per enabled source, gathered together
StartPhase1 ==
    /\ phase = "pending"
    /\ processor \in Processors
    /\ phase' = "phase1"
    /\ source' = [src \in {"cvent", "gmaps", "website"} |->
                    IF src \in Phase1Sources /\ extract[src] THEN "running" ELSE "off"]
    /\ UNCHANGED <<processor, extract, result>>
    /\ UNCHANGED <<limiterVars, parallelVars, sessionVars, cacheVars, extractorVars, cventVars, gmapsVars, callbackVars, moreVars>>

\* one Phase-1 task ends; gather(return_exceptions=True) leaves the other alone
Phase1TaskEnds ==
    /\ phase = "phase1"
    /\ \E src \in Phase1Sources :
         /\ source[src] = "running"
         /\ \E outcome \in Outcomes(src) : source' = [source EXCEPT ![src] = outcome]
    /\ UNCHANGED <<processor, extract, phase, result>>
    /\ UNCHANGED <<limiterVars, parallelVars, sessionVars, cacheVars, extractorVars, cventVars, gmapsVars, callbackVars, moreVars>>

\* gather returns: Phase 2 is started, or the result is built
EndPhase1 ==
    /\ phase = "phase1"
    /\ \A src \in Phase1Sources : source[src] # "running"
    /\ IF RunsPhase2
       THEN /\ phase' = "phase2"
            /\ source' = [source EXCEPT !.website = "running"]
            /\ UNCHANGED result
       ELSE /\ phase' = "done"
            /\ result' = Consolidated(source)
            /\ UNCHANGED source
    /\ UNCHANGED <<processor, extract>>
    /\ UNCHANGED <<limiterVars, parallelVars, sessionVars, cacheVars, extractorVars, cventVars, gmapsVars, callbackVars, moreVars>>

\* the website extraction ends and the result is built
Phase2Ends ==
    /\ phase = "phase2"
    /\ \E outcome \in Outcomes("website") :
         /\ source' = [source EXCEPT !.website = outcome]
         /\ result' = Consolidated(source')
    /\ phase' = "done"
    /\ UNCHANGED <<processor, extract>>
    /\ UNCHANGED <<limiterVars, parallelVars, sessionVars, cacheVars, extractorVars, cventVars, gmapsVars, callbackVars, moreVars>>

HotelInit ==
    /\ CacheIdle
    /\ ExtractorIdle
    /\ CventIdle
    /\ GmapsIdle
    /\ CallbackIdle
    /\ MoreIdle
    /\ LimiterIdle
    /\ ParallelIdle
    /\ SessionIdle
    /\ processor \in Processors
    /\ extract \in [cvent : BOOLEAN, gmaps : BOOLEAN, website : BOOLEAN]
    /\ phase = "pending"
    /\ source = [cvent |-> "off", gmaps |-> "off", website |-> "off"]
    /\ result = "none"

HotelNext ==
    \/ StartPhase1
    \/ Phase1TaskEnds
    \/ EndPhase1
    \/ Phase2Ends

SpecHotel == HotelInit /\ [][HotelNext]_vars

(***************************************************************************)
(* Claims about the processing of one hotel                                *)
(***************************************************************************)

\* C6: the result's 'success' flag of ParallelHotelProcessorDB is true if and
\* only if at least one enabled source returned a successful extraction.
C6_SuccessIffSomeSourceSucceeded ==
    (phase = "done" /\ processor = "ParallelHotelProcessorDB")
        => (result.success <=> \E src \in DOMAIN source : Succeeded(source[src]))

\* C7: in ParallelHotelProcessor, when one Phase-1 source fails (failed result,
\* exception or timeout) and the other succeeds, the result has success = true,
\* holds the data of the source that succeeded and lists the error of the
\* source that failed.
C7_PartialPhase1Failure ==
    (phase = "done" /\ processor = "ParallelHotelProcessor")
        => \A bad \in Phase1Sources : \A good \in Phase1Sources :
              (Failed(source[bad]) /\ Succeeded(source[good]))
                  => /\ result.success
                     /\ result[IF good = "cvent" THEN "cvent_data" ELSE "gmaps_data"] = source[good]
                     /\ bad \in result.errors

\* the website extractor has been called for the hotel
Phase2Started == source.website # "off"

\* C19: in both processors the Phase-2 website extraction of a hotel starts
\* only after all its Phase-1 tasks have finished, and runs only if Phase 1
\* produced a successful Google Maps result with a non-empty website URL.
C19_Phase2NeedsGmapsWebsite ==
    Phase2Started =>
        /\ \A src \in Phase1Sources : source[src] # "running"
        /\ source.gmaps = "ok"

\* Phase 2 was asked for and skipped: Google Maps gave no website URL
Phase2Skipped ==
    /\ phase = "done"
    /\ extract.website
    /\ ~Phase2Started

\* C20: in ParallelHotelProcessorDB, when Phase 2 is skipped because the
\* Google Maps website URL is absent, the hotel's result records a
\* 'dependency unmet' reason for the website source, and the hotel is not
\* marked failed because of the skip.
C20_SkipRecordsDependencyUnmet ==
    (processor = "ParallelHotelProcessorDB" /\ Phase2Skipped)
        => /\ result.success
           /\ \/ result.website_data = "dependency unmet"
              \/ "website" \in result.errors

(***************************************************************************)
(* ParallelHotelProcessor.process_hotels_parallel (parallel_processor.py)  *)
(*                                                                         *)
(* A hotel is [id, has_name]: has_name tells whether the dict has the      *)
(* 'name' key that _process_single_hotel and _create_error_result index.   *)
(***************************************************************************)

HotelIds == 1..MaxHotels

\* the lists of at most MaxHotels hotels, the i-th with id i
HotelLists ==
    UNION {[1..n -> BOOLEAN] : n \in 0..MaxHotels}

Hotel(i, named) == [id |-> i, has_name |-> named]

\* _create_batches: hotels_data[i:i + batch_size] for i in range(0, len, batch_size)
_create_batches(hotels, batch_size) ==
    [k \in 1..((Len(hotels) + batch_size - 1) \div batch_size) |->
        SubSeq(hotels, (k - 1) * batch_size + 1, Min(k * batch_size, Len(hotels)))]

RECURSIVE Flatten(_)
Flatten(lists) == IF lists = <<>> THEN <<>> ELSE Head(lists) \o Flatten(Tail(lists))

\* max_concurrent = 1 if extract_website else self.config.max_workers
every_batch_at_once == Len(batches)

max_concurrent == IF settings.extract_website THEN 1 ELSE settings.max_workers

InFlight == {b \in DOMAIN batch_state : batch_state[b] = "running"}

\* the batches whose task ended with a result (isinstance(batch_result, Exception) is false)
Completed(b) == batch_state[b] = "returned"

\* consolidated_results: the results of the batches that did not raise, in order
consolidate_batches ==
    Flatten([b \in DOMAIN batches |-> IF Completed(b) THEN batch_results[b] ELSE <<>>])

\* process_hotels_parallel up to gather: the batches are built, one task each
StartRun ==
    /\ run = "new"
    /\ run' = "running"
    /\ batches' = _create_batches(hotels_in, settings.batch_size)
    /\ batch_state' = [b \in DOMAIN batches' |-> "waiting"]
    /\ batch_results' = [b \in DOMAIN batches' |-> <<>>]
    /\ UNCHANGED <<hotels_in, settings, returned>>
    /\ UNCHANGED <<limiterVars, hotelVars, sessionVars, cacheVars, extractorVars, cventVars, gmapsVars, callbackVars, moreVars>>

\* async with semaphore: a batch enters when fewer than max_concurrent are inside
EnterBatch ==
    /\ run = "running"
    /\ \E b \in DOMAIN batches :
         /\ batch_state[b] = "waiting"
         /\ Cardinality(InFlight) < max_concurrent
         /\ batch_state' = [batch_state EXCEPT ![b] = "running"]
    /\ UNCHANGED <<hotels_in, settings, batches, batch_results, run, returned>>
    /\ UNCHANGED <<limiterVars, hotelVars, sessionVars, cacheVars, extractorVars, cventVars, gmapsVars, callbackVars, moreVars>>

\* the state of a batch once its results are `results`: it leaves the semaphore
\* with the last one
AfterResult(b, results) ==
    IF Len(results) = Len(batches[b]) THEN "returned" ELSE "running"

\* the next hotel of a running batch is processed: _process_single_hotel
\* returns a result (success or not), or raises; the exception becomes an
\* error result (_create_error_result), which itself raises KeyError out of
\* the batch when the hotel has no 'name'
ProcessHotel ==
    /\ run = "running"
    /\ \E b \in DOMAIN batches :
         /\ batch_state[b] = "running"
         /\ LET hotel == batches[b][Len(batch_results[b]) + 1]
            IN  \/ /\ hotel.has_name
                   /\ \E success \in BOOLEAN :
                        LET results == Append(batch_results[b],
                                              [id |-> hotel.id, success |-> success])
                        IN  /\ batch_results' = [batch_results EXCEPT ![b] = results]
                            /\ batch_state' = [batch_state EXCEPT ![b] = AfterResult(b, results)]
                \/ /\ ~hotel.has_name
                   /\ batch_state' = [batch_state EXCEPT ![b] = "raised"]
                   /\ UNCHANGED batch_results
    /\ UNCHANGED <<hotels_in, settings, batches, run, returned>>
    /\ UNCHANGED <<limiterVars, hotelVars, sessionVars, cacheVars, extractorVars, cventVars, gmapsVars, callbackVars, moreVars>>

\* gather(*tasks, return_exceptions=True) is over: the results are consolidated
ReturnResults ==
    /\ run = "running"
    /\ \A b \in DOMAIN batches : batch_state[b] \in {"returned", "raised"}
    /\ returned' = consolidate_batches
    /\ run' = "returned"
    /\ UNCHANGED <<hotels_in, settings, batches, batch_state, batch_results>>
    /\ UNCHANGED <<limiterVars, hotelVars, sessionVars, cacheVars, extractorVars, cventVars, gmapsVars, callbackVars, moreVars>>

ParallelInit ==
    /\ CacheIdle
    /\ ExtractorIdle
    /\ CventIdle
    /\ GmapsIdle
    /\ CallbackIdle
    /\ MoreIdle
    /\ LimiterIdle
    /\ HotelIdle
    /\ SessionIdle
    /\ \E named \in HotelLists : hotels_in = [i \in DOMAIN named |-> Hotel(i, named[i])]
    /\ settings \in [batch_size : 1..MaxBatchSize, max_workers : 1..MaxWorkers,
                     extract_website : BOOLEAN]
    /\ batches = <<>>
    /\ batch_state = <<>>
    /\ batch_results = <<>>
    /\ run = "new"
    /\ returned = <<>>

process_hotels_parallel ==
    \/ StartRun
    \/ EnterBatch
    \/ ProcessHotel
    \/ ReturnResults

ParallelNext == process_hotels_parallel

SpecParallel == ParallelInit /\ [][ParallelNext]_vars

(***************************************************************************)
(* Claims about process_hotels_parallel                                    *)
(***************************************************************************)

Ids(list) == [i \in DOMAIN list |-> list[i].id]

\* C2: the batches built by _create_batches partition the input in order, and
\* the list returned by process_hotels_parallel holds exactly one result per
\* submitted hotel, hotels and batches whose processing raised included.
C2_OneResultPerHotel ==
    /\ run # "new" =>
         /\ Flatten(batches) = hotels_in
         /\ \A b \in DOMAIN batches : Len(batches[b]) \in 1..settings.batch_size
    /\ run = "returned" => Ids(returned) = Ids(hotels_in)

(***************************************************************************)
(* Sessions of the store, the database-backed batch scheduler              *)
(* (parallel_processor_db.py) and the session watchdog                     *)
(* (database_service.py).  Time unit: 1 minute.                            *)
(*                                                                         *)
(* The scheduler and the watchdog are separate processes that share the    *)
(* store: every store call is one step.  idle is the time since the        *)
(* session's last_activity, saturating just above the threshold.           *)
(***************************************************************************)

Terminal == {"completed", "failed"}
RowStatuses == {"pending", "completed", "failed"}
Callers == {"scheduler", "watchdog"}

Saturated == InactivityThreshold + 1

Count(rows, status) == Cardinality({i \in DOMAIN rows : rows[i] = status})

never_inactive(idle) == FALSE

\* inactive_minutes > 3.0
_is_session_truly_inactive(idle) == idle > InactivityThreshold

never_success(actual_count) == FALSE

\* cases 1 and 2 of the watchdog finalise with success=True, case 3 with
\* success=False
watchdog_success(actual_count) == actual_count > 0

\* finalize_session: processed_hotels as counted from the rows read
counted_processed(rows, success) ==
    LET actual_count == Len(rows)
        processed_hotels == Min(Count(rows, "completed") + Count(rows, "failed"), actual_count)
    IN  IF success /\ actual_count > 0 /\ processed_hotels = 0
        THEN actual_count
        ELSE processed_hotels

\* finalize_session, actual_count != declared_total
mismatch_status(success, processed_hotels) ==
    IF success /\ processed_hotels > 0 THEN "completed" ELSE "failed"

mismatch_processed(processed_hotels, actual_count) ==
    IF processed_hotels > 0 THEN processed_hotels ELSE actual_count

declared_kept(actual_count, declared_total) == declared_total

\* total_hotels is set to the number of rows
corrected_total(actual_count, declared_total) == actual_count

\* finalize_session, actual_count = declared_total
normal_status(success) == IF success THEN "completed" ELSE "failed"

normal_processed(processed_hotels, stats_processed, actual_count, success) ==
    LET merged == IF stats_processed > 0
                  THEN Max(processed_hotels, Min(stats_processed, actual_count))
                  ELSE processed_hotels
        pending_hotels == Max(actual_count - merged, 0)
    IN  IF ~success /\ merged = 0 /\ actual_count > 0
        THEN actual_count - pending_hotels
        ELSE merged

\* SupabaseClient.update_session_status: status, processed_hotels, last_activity
update_session_status(session_id, status, processed_hotels) ==
    [sessions EXCEPT ![session_id].status = status,
                     ![session_id].processed_hotels = processed_hotels,
                     ![session_id].idle = 0]

\* SupabaseClient.update_session_activity: last_activity only
update_session_activity(session_id) ==
    [sessions EXCEPT ![session_id].idle = 0]

\* no finalize_session call in progress
NoCall ==
    [pc |-> "none", sid |-> 0, success |-> FALSE, actual_count |-> 0,
     processed_hotels |-> 0, declared_total |-> 0, status |-> "none"]

\* entry of finalize_session(session_id, success)
finalize_session(caller, session_id, success) ==
    [fin EXCEPT ![caller] = [NoCall EXCEPT !.pc = "hotels", !.sid = session_id,
                                           !.success = success]]

\* the hotels of the session are read and counted
FinalizeReadHotels(caller) ==
    /\ fin[caller].pc = "hotels"
    /\ LET rows == hotel_rows[fin[caller].sid]
       IN  fin' = [fin EXCEPT ![caller].pc = "session",
                              ![caller].actual_count = Len(rows),
                              ![caller].processed_hotels =
                                  counted_processed(rows, fin[caller].success)]
    /\ UNCHANGED <<sessions, hotel_rows, schedVars, wd, audit>>
    /\ UNCHANGED otherVars

\* the session is read: with or without mismatch
FinalizeReadSession(caller) ==
    /\ fin[caller].pc = "session"
    /\ LET call == fin[caller]
           declared_total == sessions[call.sid].total_hotels
       IN  fin' = [fin EXCEPT ![caller] =
               IF call.actual_count # declared_total
               THEN [call EXCEPT !.pc = "status", !.declared_total = declared_total,
                                 !.status = mismatch_status(call.success, call.processed_hotels)]
               ELSE [call EXCEPT !.pc = "stats", !.declared_total = declared_total,
                                 !.status = normal_status(call.success)]]
    /\ UNCHANGED <<sessions, hotel_rows, schedVars, wd, audit>>
    /\ UNCHANGED otherVars

\* mismatch: first write, status and processed_hotels
FinalizeWriteStatus(caller) ==
    /\ fin[caller].pc = "status"
    /\ LET call == fin[caller]
       IN  sessions' = update_session_status(call.sid, call.status,
                           mismatch_processed(call.processed_hotels, call.actual_count))
    /\ fin' = [fin EXCEPT ![caller].pc = "total"]
    /\ UNCHANGED <<hotel_rows, schedVars, wd, audit>>
    /\ UNCHANGED otherVars

\* finalize_session returns to its caller: the watchdog goes on with the next
\* session of its run, the scheduler returns its statistics
Return(caller) ==
    /\ fin' = [fin EXCEPT ![caller] = NoCall]
    /\ audit' = [audit EXCEPT ![fin[caller].sid].reconciled = TRUE,
                              ![fin[caller].sid].by_watchdog = @ \/ caller = "watchdog"]
    /\ IF caller = "watchdog"
       THEN /\ wd' = [pc |-> "scan", queue |-> Tail(wd.queue)]
            /\ UNCHANGED schedVars
       ELSE /\ db_run' = "returned"
            /\ UNCHANGED <<db_config, db_batches, task, wd>>

\* mismatch: second write, total_hotels
FinalizeWriteTotal(caller) ==
    /\ fin[caller].pc = "total"
    /\ LET call == fin[caller]
       IN  sessions' = [sessions EXCEPT ![call.sid].total_hotels =
                           corrected_total(call.actual_count, call.declared_total)]
    /\ Return(caller)
    /\ UNCHANGED hotel_rows
    /\ UNCHANGED otherVars

\* no mismatch: get_session_statistics (the counts of the progress view)
FinalizeReadStats(caller) ==
    /\ fin[caller].pc = "stats"
    /\ LET call == fin[caller]
           rows == hotel_rows[call.sid]
           stats_processed == Count(rows, "completed") + Count(rows, "failed")
       IN  fin' = [fin EXCEPT ![caller].pc = "final",
                              ![caller].processed_hotels =
                                  normal_processed(call.processed_hotels, stats_processed,
                                                   call.actual_count, call.success)]
    /\ UNCHANGED <<sessions, hotel_rows, schedVars, wd, audit>>
    /\ UNCHANGED otherVars

\* no mismatch: the only write
FinalizeWriteFinal(caller) ==
    /\ fin[caller].pc = "final"
    /\ LET call == fin[caller]
       IN  sessions' = update_session_status(call.sid, call.status, call.processed_hotels)
    /\ Return(caller)
    /\ UNCHANGED hotel_rows
    /\ UNCHANGED otherVars

(***************************************************************************)
(* detect_and_fix_stuck_sessions                                           *)
(***************************************************************************)

Indexes(list) == [i \in DOMAIN list |-> i]

\* select * from extraction_sessions where status = 'processing'
stuck_sessions ==
    LET ids == SelectSeq(Indexes(sessions), LAMBDA s : sessions[s].status = "processing")
    IN  [k \in DOMAIN ids |-> [sid |-> ids[k], idle |-> sessions[ids[k]].idle]]

WatchdogSelect ==
    /\ wd.pc = "idle"
    /\ wd' = [pc |-> "scan", queue |-> stuck_sessions]
    /\ UNCHANGED <<sessions, hotel_rows, schedVars, fin, audit>>
    /\ UNCHANGED otherVars

\* recent activity: the session is left alone
WatchdogSkip ==
    /\ wd.pc = "scan"
    /\ wd.queue # <<>>
    /\ ~_is_session_truly_inactive(Head(wd.queue).idle)
    /\ wd' = [wd EXCEPT !.queue = Tail(@)]
    /\ UNCHANGED <<sessions, hotel_rows, schedVars, fin, audit>>
    /\ UNCHANGED otherVars

\* inactive: the hotels are read and finalize_session is called
WatchdogFix ==
    /\ wd.pc = "scan"
    /\ wd.queue # <<>>
    /\ _is_session_truly_inactive(Head(wd.queue).idle)
    /\ LET session_id == Head(wd.queue).sid
           actual_count == Len(hotel_rows[session_id])
       IN  fin' = finalize_session("watchdog", session_id, watchdog_success(actual_count))
    /\ wd' = [wd EXCEPT !.pc = "fixing"]
    /\ UNCHANGED <<sessions, hotel_rows, schedVars, audit>>
    /\ UNCHANGED otherVars

\* the run is over
WatchdogEnd ==
    /\ wd.pc = "scan"
    /\ wd.queue = <<>>
    /\ wd' = [wd EXCEPT !.pc = "idle"]
    /\ UNCHANGED <<sessions, hotel_rows, schedVars, fin, audit>>
    /\ UNCHANGED otherVars

WatchdogFinalize ==
    \/ FinalizeReadHotels("watchdog")
    \/ FinalizeReadSession("watchdog")
    \/ FinalizeWriteStatus("watchdog")
    \/ FinalizeWriteTotal("watchdog")
    \/ FinalizeReadStats("watchdog")
    \/ FinalizeWriteFinal("watchdog")

detect_and_fix_stuck_sessions ==
    \/ WatchdogSelect
    \/ WatchdogSkip
    \/ WatchdogFix
    \/ WatchdogEnd
    \/ WatchdogFinalize

\* one minute passes; the age of a session is followed while it is
\* 'processing', the only status in which the watchdog reads it
Older(idle) == Min(idle + 1, Saturated)

Aging(s) == sessions[s].status = "processing" /\ sessions[s].idle < Saturated

Minute ==
    /\ \/ \E s \in DOMAIN sessions : Aging(s)
       \/ \E k \in DOMAIN wd.queue : wd.queue[k].idle < Saturated
    /\ sessions' = [s \in DOMAIN sessions |->
                       IF Aging(s) THEN [sessions[s] EXCEPT !.idle = Older(@)] ELSE sessions[s]]
    /\ wd' = [wd EXCEPT !.queue = [k \in DOMAIN wd.queue |->
                                      [wd.queue[k] EXCEPT !.idle = Older(@)]]]
    /\ UNCHANGED <<hotel_rows, schedVars, fin, audit>>
    /\ UNCHANGED otherVars

(***************************************************************************)
(* The watchdog on sessions no scheduler works on                          *)
(***************************************************************************)

Rank(status) == CASE status = "completed" -> 1
                  [] status = "failed" -> 2
                  [] OTHER -> 3

\* the rows of a session, up to their order
RowLists ==
    {rows \in UNION {[1..n -> RowStatuses] : n \in 0..MaxRows} :
        \A i \in DOMAIN rows : \A j \in DOMAIN rows : i < j => Rank(rows[i]) <= Rank(rows[j])}

StoredSessions ==
    [status : {"processing", "completed"}, total_hotels : 0..(MaxRows + 1),
     processed_hotels : {0}, idle : {InactivityThreshold, Saturated}]

NoAudit(session) ==
    [declared |-> session.total_hotels, reconciled |-> FALSE, by_watchdog |-> FALSE]

SchedulerAbsent ==
    /\ db_run = "absent"
    /\ db_config = [hotels |-> 0, batch_size |-> 1, max_workers |-> 1]
    /\ db_batches = <<>>
    /\ task = <<>>

WatchdogInit ==
    /\ CacheIdle
    /\ ExtractorIdle
    /\ CventIdle
    /\ GmapsIdle
    /\ CallbackIdle
    /\ MoreIdle
    /\ LimiterIdle
    /\ HotelIdle
    /\ ParallelIdle
    /\ sessions \in [1..MaxSessions -> StoredSessions]
    /\ hotel_rows \in [1..MaxSessions -> RowLists]
    /\ SchedulerAbsent
    /\ fin = [caller \in Callers |-> NoCall]
    /\ wd = [pc |-> "idle", queue |-> <<>>]
    /\ audit = [s \in DOMAIN sessions |-> NoAudit(sessions[s])]

WatchdogNext ==
    \/ detect_and_fix_stuck_sessions
    \/ Minute

SpecWatchdog == WatchdogInit /\ [][WatchdogNext]_vars

(***************************************************************************)
(* ParallelHotelProcessorDB.process_hotels_to_database on session 1        *)
(***************************************************************************)

TheSession == 1

Active == {b \in DOMAIN task : task[b].state = "active"}
Queued == {b \in DOMAIN task : task[b].state = "queued"}

RECURSIVE Sum(_, _)
Sum(f, indexes) ==
    IF indexes = {} THEN 0
    ELSE LET i == CHOOSE i \in indexes : TRUE IN f[i] + Sum(f, indexes \ {i})

total_success == Sum([b \in DOMAIN task |-> task[b].result.success], DOMAIN task)
total_errors == Sum([b \in DOMAIN task |-> task[b].result.errors], DOMAIN task)

no_errors(batch) == [success |-> 0, errors |-> 0]

\* except Exception as batch_error: every hotel of the batch counts as failed
batch_error_result(batch) == [success |-> 0, errors |-> Len(batch)]

NoResult == [success |-> 0, errors |-> 0]

\* update_session_activity at the start, the batches, the empty task list
StartDbRun ==
    /\ db_run = "created"
    /\ db_run' = "running"
    /\ sessions' = update_session_activity(TheSession)
    /\ db_batches' = _create_batches([i \in 1..db_config.hotels |-> i], db_config.batch_size)
    /\ task' = [b \in DOMAIN db_batches' |->
                   [state |-> "queued", rows |-> <<>>, result |-> NoResult, raised |-> FALSE]]
    /\ UNCHANGED <<hotel_rows, db_config, fin, wd, audit>>
    /\ UNCHANGED otherVars

\* the next batch of the queue is launched when fewer than max_workers are
\* active; _process_and_save_batch starts with prepare_hotels_batch, which
\* inserts the hotels as 'pending' rows (an insert that fails is skipped) and
\* raises on an entry that is not a dict
StartBatch ==
    /\ db_run = "running"
    /\ Queued # {}
    /\ Cardinality(Active) < db_config.max_workers
    /\ LET b == CHOOSE b \in Queued : \A other \in Queued : b <= other
           batch == db_batches[b]
           first == Len(hotel_rows[TheSession])
       IN  \E inserted \in 0..Len(batch) : \E raises \in BOOLEAN :
             /\ raises => inserted < Len(batch)
             /\ hotel_rows' = [hotel_rows EXCEPT ![TheSession] =
                                  @ \o [i \in 1..inserted |-> "pending"]]
             /\ task' = [task EXCEPT ![b] =
                  IF raises
                  THEN [state |-> "done", rows |-> <<>>,
                        result |-> batch_error_result(batch), raised |-> TRUE]
                  ELSE [state |-> "active", rows |-> [i \in 1..inserted |-> first + i],
                        result |-> NoResult, raised |-> FALSE]]
    /\ UNCHANGED <<sessions, db_run, db_config, db_batches, fin, wd, audit>>
    /\ UNCHANGED otherVars

\* the rest of _process_and_save_batch: extraction, process_batch_results
\* (each inserted hotel ends 'completed', or 'failed' when its write raised, or
\* stays 'pending' when marking it failed raised as well; a hotel without id is
\* an error) and update_session_activity; or an exception on the way
FinishBatch ==
    /\ db_run = "running"
    /\ \E b \in Active :
         LET batch == db_batches[b]
             rows == task[b].rows
         IN  \/ /\ task' = [task EXCEPT ![b].state = "done",
                                        ![b].result = batch_error_result(batch),
                                        ![b].raised = TRUE]
                /\ UNCHANGED <<sessions, hotel_rows>>
             \/ \E saved \in [DOMAIN rows -> {"completed", "failed", "pending"}] :
                  /\ hotel_rows' = [hotel_rows EXCEPT ![TheSession] =
                         [r \in DOMAIN @ |->
                             IF \E i \in DOMAIN rows : rows[i] = r
                             THEN saved[CHOOSE i \in DOMAIN rows : rows[i] = r]
                             ELSE @[r]]]
                  /\ task' = [task EXCEPT ![b].state = "done",
                                          ![b].result =
                                              [success |-> Count(saved, "completed"),
                                               errors |-> Len(batch)
                                                          - Count(saved, "completed")]]
                  /\ sessions' = update_session_activity(TheSession)
    /\ UNCHANGED <<db_run, db_config, db_batches, fin, wd, audit>>
    /\ UNCHANGED otherVars

\* every batch is over: finalize_session(session_id, success=(total_errors == 0))
CallFinalize ==
    /\ db_run = "running"
    /\ \A b \in DOMAIN task : task[b].state = "done"
    /\ db_run' = "finalizing"
    /\ fin' = finalize_session("scheduler", TheSession, total_errors = 0)
    /\ UNCHANGED <<sessions, hotel_rows, db_config, db_batches, task, wd, audit>>
    /\ UNCHANGED otherVars

SchedulerFinalize ==
    /\ db_run = "finalizing"
    /\ \/ FinalizeReadHotels("scheduler")
       \/ FinalizeReadSession("scheduler")
       \/ FinalizeWriteStatus("scheduler")
       \/ FinalizeWriteTotal("scheduler")
       \/ FinalizeReadStats("scheduler")
       \/ FinalizeWriteFinal("scheduler")

process_hotels_to_database ==
    \/ StartDbRun
    \/ StartBatch
    \/ FinishBatch
    \/ CallFinalize
    \/ SchedulerFinalize

\* the scheduler's process dies
Crash ==
    /\ db_run \in {"created", "running", "finalizing"}
    /\ db_run' = "crashed"
    /\ fin' = [fin EXCEPT !["scheduler"] = NoCall]
    /\ UNCHANGED <<sessions, hotel_rows, db_config, db_batches, task, wd, audit>>
    /\ UNCHANGED otherVars

\* create_extraction_session: status 'processing', total_hotels as declared
create_extraction_session(total_hotels) ==
    [status |-> "processing", total_hotels |-> total_hotels, processed_hotels |-> 0,
     idle |-> 0]

SessionInit ==
    /\ CacheIdle
    /\ ExtractorIdle
    /\ CventIdle
    /\ GmapsIdle
    /\ CallbackIdle
    /\ MoreIdle
    /\ LimiterIdle
    /\ HotelIdle
    /\ ParallelIdle
    /\ db_config \in [hotels : 0..MaxItems, batch_size : 1..MaxBatchSize,
                      max_workers : 1..MaxWorkers]
    /\ sessions = <<create_extraction_session(db_config.hotels)>>
    /\ hotel_rows = <<<<>>>>
    /\ db_run = "created"
    /\ db_batches = <<>>
    /\ task = <<>>
    /\ fin = [caller \in Callers |-> NoCall]
    /\ wd = [pc |-> "idle", queue |-> <<>>]
    /\ audit = [s \in DOMAIN sessions |-> NoAudit(sessions[s])]

SessionNext ==
    \/ process_hotels_to_database
    \/ Crash
    \/ detect_and_fix_stuck_sessions
    \/ Minute

SpecSession == SessionInit /\ [][SessionNext]_vars

\* the watchdog keeps being run, the store answers each of its calls, and
\* time passes
SpecSessionFair ==
    /\ SessionInit
    /\ [][SessionNext]_vars
    /\ WF_vars(detect_and_fix_stuck_sessions)
    /\ WF_vars(Minute)

(***************************************************************************)
(* Claims about the watchdog and the sessions                              *)
(***************************************************************************)

\* C3: a session that a watchdog run found inactive is left 'completed' if at
\* least one hotel row is persisted for it, whatever the rows' statuses, and
\* 'failed' if none is.
C3_WatchdogStatusFromRows ==
    \A s \in DOMAIN sessions :
        audit[s].by_watchdog =>
            sessions[s].status = IF Len(hotel_rows[s]) > 0 THEN "completed" ELSE "failed"

C3_Witness ==
    \E s \in DOMAIN sessions :
        /\ audit[s].by_watchdog
        /\ Len(hotel_rows[s]) > 0
        /\ Count(hotel_rows[s], "completed") = 0
        /\ sessions[s].status = "completed"

\* C4: when the watchdog finalises a session whose number of persisted rows
\* differs from its declared total_hotels, total_hotels afterwards equals the
\* number of persisted rows.
C4_TotalCorrectedToRows ==
    \A s \in DOMAIN sessions :
        (audit[s].by_watchdog /\ Len(hotel_rows[s]) # audit[s].declared)
            => sessions[s].total_hotels = Len(hotel_rows[s])

C4_Witness ==
    \E s \in DOMAIN sessions :
        /\ audit[s].by_watchdog
        /\ audit[s].declared > Len(hotel_rows[s])
        /\ Len(hotel_rows[s]) > 0
        /\ Count(hotel_rows[s], "completed") = Len(hotel_rows[s])
        /\ sessions[s].status = "completed"
        /\ sessions[s].total_hotels = Len(hotel_rows[s])

\* C21: when finalize_session(success=True) is applied to a session that has
\* persisted rows, as the watchdog does, the processed_hotels it writes is the
\* number of rows 'completed' plus the number of rows 'failed'.
C21_ProcessedIsCompletedPlusFailed ==
    \A s \in DOMAIN sessions :
        (audit[s].by_watchdog /\ Len(hotel_rows[s]) > 0)
            => sessions[s].processed_hotels =
                   Count(hotel_rows[s], "completed") + Count(hotel_rows[s], "failed")

\* the watchdog skips the session at the head of its list only when it is
\* younger than the threshold, and fixes it only when it is not
SkipsBelowThreshold ==
    /\ WatchdogSkip => Head(wd.queue).idle < InactivityThreshold
    /\ WatchdogFix => Head(wd.queue).idle >= InactivityThreshold

\* a skip changes no session
SkipChangesNothing == WatchdogSkip => sessions' = sessions

\* the watchdog is between the two writes of its own correction of session s
OwnSecondWrite(s) == fin["watchdog"].pc = "total" /\ fin["watchdog"].sid = s

\* a step of the watchdog leaves alone every session that is not 'processing',
\* the second write of a correction it has begun apart
OnlyProcessingTouched ==
    detect_and_fix_stuck_sessions =>
        \A s \in DOMAIN sessions :
            (sessions[s].status # "processing" /\ ~OwnSecondWrite(s))
                => sessions'[s] = sessions[s]

\* C22: a watchdog run skips a session in status 'processing' exactly when
\* now - last_activity is below the inactivity threshold (3 minutes), a
\* skipped session is left completely unchanged, and sessions whose status
\* is not 'processing' are never modified by the watchdog.
C22_WatchdogSkipsRecentOnly ==
    [][SkipsBelowThreshold /\ SkipChangesNothing /\ OnlyProcessingTouched]_vars

\* C8: an exception inside one batch never aborts the run: when the run
\* returns, every batch is over, a batch that raised counts all its hotels
\* as errors, and the session is finalised.
C8_BatchFailureIsolated ==
    db_run = "returned" =>
        /\ \A b \in DOMAIN task :
             /\ task[b].state = "done"
             /\ task[b].raised =>
                  task[b].result = [success |-> 0, errors |-> Len(db_batches[b])]
        /\ sessions[TheSession].status \in Terminal

C8_Witness ==
    /\ db_run = "returned"
    /\ \E b \in DOMAIN task : \E other \in DOMAIN task :
         /\ task[b].raised
         /\ ~task[other].raised
         /\ task[other].result.success > 0

\* C9: a session created 'processing' eventually is 'completed' or 'failed',
\* even when the scheduler crashes, as long as the watchdog runs and the
\* store answers.
C9_EventuallyTerminal ==
    (sessions[TheSession].status = "processing")
        ~> (sessions[TheSession].status \in Terminal)

C9_Witness ==
    /\ db_run = "crashed"
    /\ audit[TheSession].by_watchdog
    /\ sessions[TheSession].status \in Terminal

\* C10: once finalize_session has reconciled a session, processed_hotels is at
\* most total_hotels in every state of the store (the states between the two
\* writes of a finalize_session call in progress set aside).
BetweenWrites(s) == \E caller \in Callers : fin[caller].pc = "total" /\ fin[caller].sid = s

C10_ProcessedWithinTotal ==
    \A s \in DOMAIN sessions :
        (audit[s].reconciled /\ ~BetweenWrites(s))
            => sessions[s].processed_hotels <= sessions[s].total_hotels

\* the run of process_hotels_to_database has batches in progress
BatchesInProgress == db_run = "running" /\ Active # {}

\* a step of the watchdog does not end a session whose run has batches in
\* progress
WatchdogSparesRunning ==
    (BatchesInProgress /\ detect_and_fix_stuck_sessions
        /\ sessions[TheSession].status \notin Terminal)
        => sessions'[TheSession].status \notin Terminal

\* a terminal status is kept by every step
TerminalIsFinal ==
    sessions[TheSession].status \in Terminal
        => sessions'[TheSession].status = sessions[TheSession].status

\* C36: while a process_hotels_to_database run for a session still has
\* batches in progress, the watchdog never moves that session to a terminal
\* status, however long a single batch takes; and once a session is terminal,
\* no later step of the scheduler or of the watchdog changes that status.
C36_RunningSessionNotFinalised == [][WatchdogSparesRunning /\ TerminalIsFinal]_vars

(***************************************************************************)
(* Claims about the persistence of the results                             *)
(***************************************************************************)

Submitted == 1..db_config.hotels

\* the hotels of batch b whose result process_batch_results handed to
\* process_hotel_extraction: the results that carry a hotel_id, which the
\* batch gave to its first len(hotel_ids) hotels
written(b) ==
    IF task[b].state = "done" /\ ~task[b].raised
    THEN {db_batches[b][i] : i \in 1..Len(task[b].rows)}
    ELSE {}

Writes(hotel) == Cardinality({b \in DOMAIN task : hotel \in written(b)})

\* C13: in a run of process_hotels_to_database the result of every submitted
\* hotel is written to the store exactly once, whatever inserts or
\* extractions fail.
C13_EveryResultWrittenOnce ==
    db_run = "returned" => \A hotel \in Submitted : Writes(hotel) = 1

\* C14: when process_hotels_to_database returns, every submitted hotel has a
\* persisted row whose extraction_status is 'completed' or 'failed': none is
\* missing and none is left 'pending'.
C14_EveryHotelSettled ==
    db_run = "returned" =>
        /\ Len(hotel_rows[TheSession]) = db_config.hotels
        /\ \A r \in DOMAIN hotel_rows[TheSession] :
               hotel_rows[TheSession][r] \in {"completed", "failed"}

(***************************************************************************)
(* The batch schedulers of both processors: a run of process_hotels_parallel *)
(* or a run of process_hotels_to_database                                  *)
(***************************************************************************)

ProcessorsInit == ParallelInit \/ SessionInit

ProcessorsNext == process_hotels_parallel \/ process_hotels_to_database

SpecProcessors == ProcessorsInit /\ [][ProcessorsNext]_vars

\* the batches that have been started
Entered == {b \in DOMAIN batch_state : batch_state[b] # "waiting"}
Launched == {b \in DOMAIN task : task[b].state # "queued"}

\* a step starts a batch only from the queue, and a started batch never goes
\* back to it
StartsOnce ==
    /\ \A b \in Entered :
          /\ b \in DOMAIN batch_state' /\ batch_state'[b] # "waiting"
          /\ batch_state[b] # "running" => batch_state'[b] = batch_state[b]
    /\ \A b \in Launched :
          /\ b \in DOMAIN task' /\ task'[b].state # "queued"
          /\ task[b].state = "done" => task'[b].state = "done"

BoundedBatches ==
    /\ Cardinality(InFlight) <= settings.max_workers
    /\ settings.extract_website => Cardinality(InFlight) <= 1
    /\ Cardinality(Active) <= db_config.max_workers
    /\ run = "returned" => Entered = DOMAIN batches
    /\ db_run = "returned" => Launched = DOMAIN db_batches

\* C15: at most max_workers batches are processed at the same time in both
\* processors (one in process_hotels_parallel when website extraction is on),
\* and every batch is started exactly once: never again once started, and
\* none is left unstarted when the run returns.
C15_BatchConcurrencyBounded == []BoundedBatches /\ [][StartsOnce]_vars

\* a batch waits although a worker is free of the configured max_workers,
\* because website extraction allows one batch at a time
C15_Witness ==
    /\ settings.extract_website
    /\ settings.max_workers > 1
    /\ Cardinality(InFlight) = 1
    /\ \E b \in DOMAIN batch_state : batch_state[b] = "waiting"
    /\ Entered \ InFlight # {}

(***************************************************************************)
(* GoogleMapsCache (cache/gmaps_cache.py).  Time unit: 1 second.           *)
(* get and set run under the cache's lock: each is one step.               *)
(***************************************************************************)

HotelNames == {"Ritz", " ritz ", "Carlton"}
HotelAddresses == {"Paris"}
CachedValues == {"v1", "v2"}
None == "None"

\* str.lower().strip()
lower_strip(text) ==
    CASE text = "Ritz" -> "ritz"
      [] text = " ritz " -> "ritz"
      [] text = "Carlton" -> "carlton"
      [] text = "Paris" -> "paris"
      [] OTHER -> text

\* md5 of "name|address", both normalised; the digest stands for the pair
_generate_cache_key(hotel_name, hotel_address) ==
    <<lower_strip(hotel_name), lower_strip(hotel_address)>>

strictly_fresh(entry, t) == t - entry.timestamp < entry.ttl

\* not (time.time() - entry["timestamp"] > ttl)
fresh(entry, t) == ~(t - entry.timestamp > entry.ttl)

keep_entry(data, key) == data

\* del self._data[key]
evict(data, key) == [k \in DOMAIN data \ {key} |-> data[k]]

\* self._data[key] = {...}
store(data, key, entry) ==
    [k \in DOMAIN data \cup {key} |-> IF k = key THEN entry ELSE data[k]]

CacheCalls == last.n

Before == [data |-> _data, hits |-> hits, misses |-> misses, expired |-> expired,
           lapsed |-> lapsed, intact |-> intact, on_disk |-> on_disk]

\* GoogleMapsCache.get
Get ==
    /\ CacheCalls < MaxCacheCalls
    /\ \E hotel_name \in HotelNames : \E hotel_address \in HotelAddresses :
         LET key == _generate_cache_key(hotel_name, hotel_address)
             call == [op |-> "get", n |-> last.n + 1, key |-> key, at |-> clock,
                      before |-> Before,
                      after_set |-> last.op = "set" /\ last.key = key /\ last.at = clock,
                      set_value |-> IF last.op = "set" THEN last.value ELSE None]
         IN  IF data_type # "dict"
             THEN /\ last' = call @@ [ret |-> "AttributeError"]
                  /\ UNCHANGED <<_data, hits, misses, expired, lapsed>>
             ELSE IF key \notin DOMAIN _data
             THEN /\ misses' = misses + 1
                  /\ last' = call @@ [ret |-> None]
                  /\ UNCHANGED <<_data, hits, expired, lapsed>>
             ELSE IF ~fresh(_data[key], clock)
             THEN /\ expired' = expired + 1
                  /\ misses' = misses + 1
                  /\ _data' = evict(_data, key)
                  /\ lapsed' = lapsed \cup {key}
                  /\ last' = call @@ [ret |-> None]
                  /\ UNCHANGED hits
             ELSE /\ hits' = hits + 1
                  /\ last' = call @@ [ret |-> _data[key].value]
                  /\ UNCHANGED <<_data, misses, expired, lapsed>>
    /\ intact' = intact \cap DOMAIN _data'
    /\ UNCHANGED <<clock, ttl, cache_file, on_disk, data_type>>
    /\ UNCHANGED <<limiterVars, hotelVars, parallelVars, sessionVars, extractorVars, cventVars, gmapsVars, callbackVars, moreVars>>

\* GoogleMapsCache.set
Set ==
    /\ CacheCalls < MaxCacheCalls
    /\ \E hotel_name \in HotelNames : \E hotel_address \in HotelAddresses :
       \E value \in CachedValues :
         LET key == _generate_cache_key(hotel_name, hotel_address)
         IN  IF data_type # "dict"
             THEN /\ last' = [op |-> "set", n |-> last.n + 1, key |-> key, at |-> clock,
                              value |-> value, ret |-> "TypeError"]
                  /\ UNCHANGED <<_data, lapsed, intact>>
             ELSE /\ _data' = store(_data, key,
                                    [timestamp |-> clock, value |-> value, ttl |-> ttl])
                  /\ lapsed' = lapsed \ {key}
                  /\ last' = [op |-> "set", n |-> last.n + 1, key |-> key, at |-> clock,
                              value |-> value, ret |-> None]
                  /\ intact' = intact \ {key}
    /\ UNCHANGED <<clock, ttl, hits, misses, expired, cache_file, on_disk, data_type>>
    /\ UNCHANGED <<limiterVars, hotelVars, parallelVars, sessionVars, extractorVars, cventVars, gmapsVars, callbackVars, moreVars>>

\* cache.ttl = ...: the ttl given to the entries set from now on
ChangeTtl ==
    /\ \E t \in 0..MaxTtl : t # ttl /\ ttl' = t
    /\ UNCHANGED <<clock, _data, hits, misses, expired, last, lapsed, cache_file, on_disk, intact,
                   data_type>>
    /\ UNCHANGED <<limiterVars, hotelVars, parallelVars, sessionVars, extractorVars, cventVars, gmapsVars, callbackVars, moreVars>>

\* one second passes
Second ==
    /\ clock < MaxClock
    /\ clock' = clock + 1
    /\ UNCHANGED <<ttl, _data, hits, misses, expired, last, lapsed, cache_file, on_disk, intact,
                   data_type>>
    /\ UNCHANGED <<limiterVars, hotelVars, parallelVars, sessionVars, extractorVars, cventVars, gmapsVars, callbackVars, moreVars>>

\* the ttl of every entry is the default
default_ttl(entry) == ttl

\* v.get("ttl", self.ttl): the ttl the entry was set with
entry_ttl(entry) == entry.ttl

\* [k for k, v in self._data.items() if now - v["timestamp"] > v.get("ttl", self.ttl)]
expired_keys(data, t) ==
    {k \in DOMAIN data : t - data[k].timestamp > entry_ttl(data[k])}

\* GoogleMapsCache.cleanup_expired
cleanup_expired ==
    /\ CacheCalls < MaxCacheCalls
    /\ LET keys == expired_keys(_data, clock)
       IN  /\ _data' = [k \in DOMAIN _data \ keys |-> _data[k]]
           /\ expired' = expired + Cardinality(keys)
           /\ intact' = intact \ keys
           /\ last' = [op |-> "cleanup", n |-> last.n + 1, at |-> clock, before |-> Before,
                       ret |-> Cardinality(keys)]
    /\ UNCHANGED <<clock, ttl, hits, misses, lapsed, cache_file, on_disk, data_type>>
    /\ UNCHANGED <<limiterVars, hotelVars, parallelVars, sessionVars, extractorVars, cventVars, gmapsVars, callbackVars, moreVars>>
\* self.cache_file.exists() is false
NoFile == [exists |-> FALSE]

\* the numbers the cache writes: times and ttls
Numbers == 0..(MaxClock + MaxTtl)

\* json.dumps of a number and of a string
json_number(n) == [json |-> "number", text |-> ToString(n)]

json_string(text) == [json |-> "string", text |-> text]

\* json.dumps(self._data): an object of objects
json_dumps(data) ==
    [json |-> "object",
     members |-> [k \in DOMAIN data |->
                    [json |-> "object",
                     members |-> [timestamp |-> json_number(data[k].timestamp),
                                  value |-> json_string(data[k].value),
                                  ttl |-> json_number(data[k].ttl)]]]]

\* the number a JSON number text stands for
parse_number(j) == CHOOSE n \in Numbers : ToString(n) = j.text

\* a load that stamps the entries with the time of the load
restamped_loads(text) ==
    [k \in DOMAIN text.members |->
        [timestamp |-> clock,
         value |-> text.members[k].members.value.text,
         ttl |-> parse_number(text.members[k].members.ttl)]]

\* json.loads of the text of the file
json_loads(text) ==
    [k \in DOMAIN text.members |->
        [timestamp |-> parse_number(text.members[k].members.timestamp),
         value |-> text.members[k].members.value.text,
         ttl |-> parse_number(text.members[k].members.ttl)]]

\* _load_from_disk: nothing is read when the file does not exist; an empty
\* text is read as "{}"; json.JSONDecodeError gives an empty dict; any other
\* JSON value becomes self._data as it is; an exception of another class
\* (the text cannot be decoded) leaves _load_from_disk
_load_from_disk(file) ==
    IF ~file.exists
    THEN [ret |-> None, data |-> <<>>, type |-> "dict"]
    ELSE CASE file.text.json = "object" ->
                [ret |-> None, data |-> json_loads(file.text), type |-> "dict"]
           [] file.text.json \in {"empty", "invalid"} ->
                [ret |-> None, data |-> <<>>, type |-> "dict"]
           [] file.text.json = "array" ->
                [ret |-> None, data |-> <<>>, type |-> "list"]
           [] OTHER ->
                [ret |-> "UnicodeDecodeError", data |-> <<>>, type |-> "dict"]

\* GoogleMapsCache._save_to_disk
_save_to_disk ==
    /\ cache_file' = [exists |-> TRUE,
                      text |-> IF data_type = "dict" THEN json_dumps(_data)
                               ELSE [json |-> "array"]]
    /\ on_disk' = _data
    /\ UNCHANGED <<clock, ttl, _data, hits, misses, expired, last, lapsed, intact, data_type>>
    /\ UNCHANGED <<limiterVars, hotelVars, parallelVars, sessionVars, extractorVars, cventVars, gmapsVars, callbackVars, moreVars>>
\* a new GoogleMapsCache on the same file, with any default ttl, and its
\* initialize: _load_from_disk reads the file if it exists
initialize ==
    /\ \E default \in 0..MaxTtl : ttl' = default
    /\ LET loaded == _load_from_disk(cache_file)
       IN  /\ _data' = loaded.data
           /\ data_type' = loaded.type
           /\ last' = [op |-> "load", n |-> last.n, at |-> clock, ret |-> loaded.ret]
    /\ hits' = 0
    /\ misses' = 0
    /\ expired' = 0
    /\ lapsed' = {}
    /\ intact' = DOMAIN _data'
    /\ UNCHANGED <<clock, cache_file, on_disk>>
    /\ UNCHANGED <<limiterVars, hotelVars, parallelVars, sessionVars, extractorVars, cventVars, gmapsVars, callbackVars, moreVars>>
\* what a snapshot file can hold that no save wrote: an empty text, a text
\* that is not JSON, JSON that is not an object, bytes that are no text
DamagedTexts == {[json |-> "empty"], [json |-> "invalid"], [json |-> "array"],
                 [json |-> "undecodable"]}

\* the snapshot is removed or damaged behind the cache's back
Damage ==
    /\ \/ cache_file' = NoFile
       \/ \E text \in DamagedTexts : cache_file' = [exists |-> TRUE, text |-> text]
    /\ cache_file' # cache_file
    /\ on_disk' = <<>>
    /\ UNCHANGED <<clock, ttl, _data, hits, misses, expired, last, lapsed, intact, data_type>>
    /\ UNCHANGED <<limiterVars, hotelVars, parallelVars, sessionVars, extractorVars, cventVars, gmapsVars, callbackVars, moreVars>>

\* _save_to_disk when the write fails: mkdir or open raises and the file is
\* as it was, or write raises after open(..., "w") has emptied the file; the
\* exception leaves _save_to_disk
SaveFails ==
    /\ CacheCalls < MaxCacheCalls
    /\ \/ UNCHANGED <<cache_file, on_disk>>
       \/ /\ cache_file' = [exists |-> TRUE, text |-> [json |-> "empty"]]
          /\ on_disk' = <<>>
    /\ last' = [op |-> "save", n |-> last.n + 1, at |-> clock, before |-> Before,
                ret |-> "OSError"]
    /\ UNCHANGED <<clock, ttl, _data, hits, misses, expired, lapsed, intact, data_type>>
    /\ UNCHANGED <<limiterVars, hotelVars, parallelVars, sessionVars, extractorVars, cventVars, gmapsVars, callbackVars, moreVars>>

CacheInit ==
    /\ LimiterIdle
    /\ HotelIdle
    /\ ParallelIdle
    /\ SessionIdle
    /\ ExtractorIdle
    /\ CventIdle
    /\ GmapsIdle
    /\ CallbackIdle
    /\ MoreIdle
    /\ clock = 0
    /\ ttl \in 0..MaxTtl
    /\ _data = <<>>
    /\ hits = 0
    /\ misses = 0
    /\ expired = 0
    /\ last = NoCacheCall
    /\ lapsed = {}
    /\ cache_file = NoFile
    /\ on_disk = <<>>
    /\ intact = {}
    /\ data_type = "dict"

CacheNext ==
    \/ Get
    \/ Set
    \/ ChangeTtl
    \/ Second

SpecCache == CacheInit /\ [][CacheNext]_vars

\* the cache with its maintenance and its file
CacheDiskNext ==
    \/ Get
    \/ Set
    \/ ChangeTtl
    \/ Second
    \/ cleanup_expired
    \/ _save_to_disk
    \/ initialize

SpecCacheDisk == CacheInit /\ [][CacheDiskNext]_vars

\* the cache and a snapshot that can be damaged or fail to be written
SnapshotNext ==
    \/ Get
    \/ Set
    \/ Second
    \/ _save_to_disk
    \/ SaveFails
    \/ initialize
    \/ Damage

SpecSnapshot == CacheInit /\ [][SnapshotNext]_vars

(***************************************************************************)
(* Claims about the cache                                                  *)
(***************************************************************************)

\* the entry the last get looked up was there
Present == last.key \in DOMAIN last.before.data

Looked == last.before.data[last.key]

Age == last.at - Looked.timestamp

\* C11: get returns the stored value exactly when an entry exists for the
\* normalised key and its age is at most its ttl; a get right after set(k, v)
\* returns v; a hit adds one to hits and leaves the entries as they were.
C11_GetHitsFreshEntries ==
    last.op = "get" =>
        LET live == Present /\ Age <= Looked.ttl
        IN  /\ live => last.ret = Looked.value
            /\ ~live => last.ret = None
            /\ live => /\ hits = last.before.hits + 1
                       /\ misses = last.before.misses
                       /\ _data = last.before.data
            /\ last.after_set => last.ret = last.set_value

C11_Witness ==
    /\ last.op = "get"
    /\ Present
    /\ Looked.ttl > 0
    /\ Age = Looked.ttl
    /\ last.ret = Looked.value
    /\ hits = last.before.hits + 1

\* C12: a get on an entry older than its ttl is a miss that deletes the
\* entry and adds one to expired and to misses; a later get on the same key
\* with no set in between is a plain miss that leaves expired alone.
C12_ExpiredCountedOnce ==
    last.op = "get" =>
        /\ (Present /\ Age > Looked.ttl) =>
              /\ last.ret = None
              /\ last.key \notin DOMAIN _data
              /\ expired = last.before.expired + 1
              /\ misses = last.before.misses + 1
        /\ last.key \in last.before.lapsed =>
              /\ last.ret = None
              /\ expired = last.before.expired
              /\ misses = last.before.misses + 1

C12_Witness ==
    /\ last.op = "get"
    /\ last.key \in last.before.lapsed
    /\ last.before.expired = 1
    /\ expired = 1
    /\ misses = last.before.misses + 1

\* C29: cleanup_expired removes exactly the entries whose age exceeds their
\* own ttl (the one in force when they were set, not the current default) at
\* the time of the call, keeps the others as they are, returns the number
\* removed and adds it to expired.
C29_CleanupRemovesExpiredOnly ==
    last.op = "cleanup" =>
        LET old == last.before.data
            gone == {k \in DOMAIN old : last.at - old[k].timestamp > old[k].ttl}
        IN  /\ DOMAIN _data = DOMAIN old \ gone
            /\ \A k \in DOMAIN _data : _data[k] = old[k]
            /\ last.ret = Cardinality(gone)
            /\ expired = last.before.expired + Cardinality(gone)

\* an entry is removed that the current default ttl would have kept, next
\* to an entry that stays
C29_Witness ==
    /\ last.op = "cleanup"
    /\ last.ret = 1
    /\ _data # <<>>
    /\ \E k \in DOMAIN last.before.data \ DOMAIN _data :
         /\ last.before.data[k].ttl # ttl
         /\ last.at - last.before.data[k].timestamp <= ttl

\* C30: saving the cache and initializing a new GoogleMapsCache from the same
\* file gives the same entries with their original timestamps and ttls; an
\* entry loaded this way is returned by get exactly while its age, counted
\* from the time it was set, is at most its ttl.
C30_ReloadKeepsEntries ==
    /\ last.op = "load" => _data = on_disk
    /\ (last.op = "get" /\ last.key \in last.before.intact) =>
          LET entry == last.before.on_disk[last.key]
          IN  last.ret = IF last.at - entry.timestamp <= entry.ttl THEN entry.value ELSE None

\* an entry set before the save, found by a get after the reload, later
\* than it was set and under another default ttl
C30_Witness ==
    /\ last.op = "get"
    /\ last.key \in last.before.intact
    /\ last.ret # None
    /\ last.at > last.before.on_disk[last.key].timestamp
    /\ ttl # last.before.on_disk[last.key].ttl

\* the snapshot is missing or is not a valid cache snapshot
NoValidSnapshot == ~cache_file.exists \/ cache_file.text.json # "object"

\* C31: initialize never fails because of the snapshot: if the file is
\* missing or its content is not a valid cache snapshot, the cache starts
\* empty and every later get and set works normally.
C31_InitializeSurvivesSnapshot ==
    /\ last.op = "load" =>
          /\ last.ret = None
          /\ NoValidSnapshot => (_data = <<>> /\ data_type = "dict")
    /\ last.op \in {"get", "set"} => last.ret \notin {"AttributeError", "TypeError"}

\* C32: a failure while writing the snapshot is not propagated to the caller
\* and leaves the entries and the counters in memory as they were.
C32_SaveFailureNotPropagated ==
    last.op = "save" =>
        /\ last.ret = None
        /\ _data = last.before.data
        /\ hits = last.before.hits
        /\ misses = last.before.misses
        /\ expired = last.before.expired

(***************************************************************************)
(* DataExtractor._process_batch (processors/data_extractor.py): one task    *)
(* per hotel of the batch, created before the semaphore is taken.           *)
(***************************************************************************)

BatchHotels == 1..extractor_batch

\* the hotels whose process_hotel coroutine has started and not returned
Processing == {h \in DOMAIN extractor_tasks : extractor_tasks[h] = "processing"}

\* the wrappers inside `async with semaphore`
Inside == {h \in DOMAIN semaphore : semaphore[h] = "inside"}

\* _process_batch up to gather: asyncio.create_task(processor.process_hotel(...))
\* for every hotel, then one process_with_semaphore wrapper per task
CreateTasks ==
    /\ extractor_run = "new"
    /\ extractor_run' = "gathering"
    /\ extractor_tasks' = [h \in BatchHotels |-> "created"]
    /\ semaphore' = [h \in BatchHotels |-> "waiting"]
    /\ UNCHANGED <<extractor_settings, extractor_batch>>
    /\ UNCHANGED <<limiterVars, hotelVars, parallelVars, sessionVars, cacheVars, cventVars, gmapsVars, callbackVars, moreVars>>

\* the event loop starts a created task: process_hotel runs up to its first await
TaskStarts ==
    /\ extractor_run = "gathering"
    /\ \E h \in BatchHotels :
         /\ extractor_tasks[h] = "created"
         /\ extractor_tasks' = [extractor_tasks EXCEPT ![h] = "processing"]
    /\ UNCHANGED <<extractor_settings, extractor_batch, semaphore, extractor_run>>
    /\ UNCHANGED <<limiterVars, hotelVars, parallelVars, sessionVars, cacheVars, cventVars, gmapsVars, callbackVars, moreVars>>

\* process_hotel returns (it catches its own exceptions) or raises
TaskEnds ==
    /\ extractor_run = "gathering"
    /\ \E h \in BatchHotels :
         /\ extractor_tasks[h] = "processing"
         /\ extractor_tasks' = [extractor_tasks EXCEPT ![h] = "done"]
    /\ UNCHANGED <<extractor_settings, extractor_batch, semaphore, extractor_run>>
    /\ UNCHANGED <<limiterVars, hotelVars, parallelVars, sessionVars, cacheVars, cventVars, gmapsVars, callbackVars, moreVars>>

\* async with semaphore: a wrapper enters when fewer than max_workers are inside
Acquire ==
    /\ extractor_run = "gathering"
    /\ \E h \in BatchHotels :
         /\ semaphore[h] = "waiting"
         /\ Cardinality(Inside) < extractor_settings.max_workers
         /\ semaphore' = [semaphore EXCEPT ![h] = "inside"]
    /\ UNCHANGED <<extractor_settings, extractor_batch, extractor_tasks, extractor_run>>
    /\ UNCHANGED <<limiterVars, hotelVars, parallelVars, sessionVars, cacheVars, cventVars, gmapsVars, callbackVars, moreVars>>

\* return await task: the wrapper leaves the semaphore once its task is over
Release ==
    /\ extractor_run = "gathering"
    /\ \E h \in BatchHotels :
         /\ semaphore[h] = "inside"
         /\ extractor_tasks[h] = "done"
         /\ semaphore' = [semaphore EXCEPT ![h] = "left"]
    /\ UNCHANGED <<extractor_settings, extractor_batch, extractor_tasks, extractor_run>>
    /\ UNCHANGED <<limiterVars, hotelVars, parallelVars, sessionVars, cacheVars, cventVars, gmapsVars, callbackVars, moreVars>>

\* gather is over: every wrapper has left
BatchGathered ==
    /\ extractor_run = "gathering"
    /\ \A h \in BatchHotels : semaphore[h] = "left"
    /\ extractor_run' = "returned"
    /\ UNCHANGED <<extractor_settings, extractor_batch, extractor_tasks, semaphore>>
    /\ UNCHANGED <<limiterVars, hotelVars, parallelVars, sessionVars, cacheVars, cventVars, gmapsVars, callbackVars, moreVars>>

ExtractorInit ==
    /\ CacheIdle
    /\ CventIdle
    /\ GmapsIdle
    /\ CallbackIdle
    /\ MoreIdle
    /\ LimiterIdle
    /\ HotelIdle
    /\ ParallelIdle
    /\ SessionIdle
    /\ extractor_settings \in [max_workers : 1..MaxWorkers]
    /\ extractor_batch \in 1..MaxHotels
    /\ extractor_tasks = <<>>
    /\ semaphore = <<>>
    /\ extractor_run = "new"

_process_batch ==
    \/ CreateTasks
    \/ TaskStarts
    \/ TaskEnds
    \/ Acquire
    \/ Release
    \/ BatchGathered

SpecExtractor == ExtractorInit /\ [][_process_batch]_vars

\* C16: in DataExtractor._process_batch at most settings.parallel.max_workers
\* hotels of a batch are being processed at the same time.
C16_AtMostMaxWorkersHotels ==
    Cardinality(Processing) <= extractor_settings.max_workers

(***************************************************************************)
(* The hotel tasks of a processor in phase 1 (_extract_cvent_async and       *)
(* _extract_gmaps_async of both processors), all on one event loop. Every   *)
(* Cvent call runs extract_cvent_data on the thread of an executor of its   *)
(* own; leaving the `with ThreadPoolExecutor` block joins that thread.      *)
(***************************************************************************)

\* the hotel tasks that may run at the same time: max_workers batches of
\* batch_size hotels
HotelTasks == 1..(cvent_config.max_workers * cvent_config.batch_size)

\* the blocking Cvent extractions running on a worker thread
Blocking == {h \in DOMAIN executor : executor[h] = "running"}

\* gather of phase 1 starts both calls of a hotel: _extract_cvent_async creates
\* ThreadPoolExecutor(max_workers=1) and submits extract_cvent_data to it
EnterPhase1(h) ==
    /\ loop = 0
    /\ cvent_call[h] = "pending"
    /\ cvent_call' = [cvent_call EXCEPT ![h] = "waiting"]
    /\ executor' = [executor EXCEPT ![h] = "running"]
    /\ gmaps_call' = [gmaps_call EXCEPT ![h] = "waiting"]
    /\ UNCHANGED <<cvent_config, loop>>
    /\ UNCHANGED <<limiterVars, hotelVars, parallelVars, sessionVars, cacheVars, extractorVars, gmapsVars, callbackVars, moreVars>>

\* extract_cvent_data returns on its thread; a shutdown(wait=True) that was
\* joining this thread returns
ThreadEnds(h) ==
    /\ executor[h] = "running"
    /\ executor' = [executor EXCEPT ![h] = "finished"]
    /\ loop' = IF loop = h THEN 0 ELSE loop
    /\ UNCHANGED <<cvent_config, cvent_call, gmaps_call>>
    /\ UNCHANGED <<limiterVars, hotelVars, parallelVars, sessionVars, cacheVars, extractorVars, gmapsVars, callbackVars, moreVars>>

\* wait_for returns the result of the finished extraction
CventReturns(h) ==
    /\ loop = 0
    /\ cvent_call[h] = "waiting"
    /\ executor[h] = "finished"
    /\ cvent_call' = [cvent_call EXCEPT ![h] = "ok"]
    /\ UNCHANGED <<cvent_config, executor, gmaps_call, loop>>
    /\ UNCHANGED <<limiterVars, hotelVars, parallelVars, sessionVars, cacheVars, extractorVars, gmapsVars, callbackVars, moreVars>>

\* wait_for times out while the extraction still runs: the call raises
\* "Timeout Cvent", and leaving the with block calls shutdown(wait=True) on
\* the event loop's thread
CventTimeout(h) ==
    /\ loop = 0
    /\ cvent_call[h] = "waiting"
    /\ executor[h] = "running"
    /\ cvent_call' = [cvent_call EXCEPT ![h] = "timeout"]
    /\ loop' = h
    /\ UNCHANGED <<cvent_config, executor, gmaps_call>>
    /\ UNCHANGED <<limiterVars, hotelVars, parallelVars, sessionVars, cacheVars, extractorVars, gmapsVars, callbackVars, moreVars>>

\* _extract_gmaps_async returns its result or raises (its own timeout included)
GmapsEnds(h) ==
    /\ loop = 0
    /\ gmaps_call[h] = "waiting"
    /\ \E outcome \in {"ok", "failed"} :
         gmaps_call' = [gmaps_call EXCEPT ![h] = outcome]
    /\ UNCHANGED <<cvent_config, cvent_call, executor, loop>>
    /\ UNCHANGED <<limiterVars, hotelVars, parallelVars, sessionVars, cacheVars, extractorVars, gmapsVars, callbackVars, moreVars>>

CventInit ==
    /\ CacheIdle
    /\ ExtractorIdle
    /\ GmapsIdle
    /\ CallbackIdle
    /\ MoreIdle
    /\ LimiterIdle
    /\ HotelIdle
    /\ ParallelIdle
    /\ SessionIdle
    /\ cvent_config \in [max_workers : 1..MaxWorkers, batch_size : 1..MaxBatchSize]
    /\ cvent_call = [h \in HotelTasks |-> "pending"]
    /\ executor = [h \in HotelTasks |-> "none"]
    /\ gmaps_call = [h \in HotelTasks |-> "pending"]
    /\ loop = 0

CventNext ==
    \/ \E h \in HotelTasks : EnterPhase1(h)
    \/ \E h \in HotelTasks : ThreadEnds(h)
    \/ \E h \in HotelTasks : CventReturns(h)
    \/ \E h \in HotelTasks : CventTimeout(h)
    \/ \E h \in HotelTasks : GmapsEnds(h)

SpecCvent == CventInit /\ [][CventNext]_vars

\* C17: the number of blocking Cvent extractions running at once is bounded by
\* a fixed worker-pool size strictly smaller than the number of hotel tasks
\* that may run concurrently (max_workers x batch_size).
C17_CventPoolSmallerThanTasks ==
    Cardinality(HotelTasks) > 1 => Cardinality(Blocking) < Cardinality(HotelTasks)

\* C18: when a source call exceeds its timeout, only that source of that hotel
\* is recorded failed, and the other sources and the other hotels' tasks keep
\* making progress without waiting for the timed-out call to finish: whatever
\* they were able to do next they still can.
C18_TimeoutBlocksNobody ==
    \A h \in HotelTasks :
        cvent_call[h] = "timeout" =>
            \A other \in HotelTasks :
                  /\ gmaps_call[other] = "waiting" => ENABLED GmapsEnds(other)
                  /\ cvent_call[other] = "pending" => ENABLED EnterPhase1(other)
                  /\ cvent_call[other] = "waiting" /\ executor[other] = "finished"
                        => ENABLED CventReturns(other)

(***************************************************************************)
(* extract_hotels_batch and GoogleMapsExtractor.extract_hotel_info           *)
(* (gmaps_extractor.py).  A result is the dict the extractor returns,       *)
(* reduced to the keys the batch function reads.                            *)
(***************************************************************************)

Places == 1..MaxPlaces

\* what the API answers to a search: a valid place, no valid place, or an error status
Responses == {"valid", "none", "429", "503"}

\* _format_hotel_data: the formatted place; it has no 'success' key
_format_hotel_data == [extraction_status |-> "success"]

\* _create_empty_result
_create_empty_result == [extraction_status |-> "failed"]

\* dict.get
dict_get(d, key) == IF key \in DOMAIN d THEN d[key] ELSE None

\* truth value of what dict.get returned
Truthy(value) == value \notin {None, FALSE}

\* the hotel being extracted
Fetching == hotels_info[Head(hotels_to_fetch)]

\* extract_hotel_info has returned for the hotel being extracted: a valid
\* place was found, or every query has been tried
InfoReturned ==
    \/ Len(responses) = QueryCount
    \/ responses # <<>> /\ responses[Len(responses)] = "valid"

\* a call of extract_hotels_batch up to its fetch loop: batch_get, then the
\* hotels without cached data are marked for extraction
CallBatch ==
    /\ gmaps_pc \in {"idle", "returned"}
    /\ passes < MaxPasses
    /\ passes' = passes + 1
    /\ \E n \in 1..MaxBatch : \E batch \in [1..n -> Places] :
         /\ hotels_info' = batch
         /\ gmaps_results' = [i \in 1..n |-> IF batch[i] \in api_cache THEN "cached" ELSE None]
         /\ hotels_to_fetch' = SelectSeq([i \in 1..n |-> i], LAMBDA i : batch[i] \notin api_cache)
    /\ responses' = <<>>
    /\ fetched' = <<>>
    /\ gmaps_pc' = "fetching"
    /\ UNCHANGED <<api_cache, api_errors, fetched_ok>>
    /\ UNCHANGED <<limiterVars, hotelVars, parallelVars, sessionVars, cacheVars, extractorVars,
                   cventVars, callbackVars, moreVars>>

\* _search_place for the next query of the hotel: acquire, the request, and
\* the answer; an error status goes to handle_error and raises, and
\* extract_hotel_info catches the exception and goes on with the next query
SearchPlace ==
    /\ gmaps_pc = "fetching"
    /\ hotels_to_fetch # <<>>
    /\ ~InfoReturned
    /\ \E response \in Responses :
         /\ responses' = Append(responses, response)
         /\ api_errors' = IF response \in {"429", "503"} THEN api_errors + 1 ELSE api_errors
    /\ UNCHANGED <<passes, hotels_info, gmaps_results, hotels_to_fetch, api_cache, fetched,
                   fetched_ok, gmaps_pc>>
    /\ UNCHANGED <<limiterVars, hotelVars, parallelVars, sessionVars, cacheVars, extractorVars,
                   cventVars, callbackVars, moreVars>>

\* extract_hotel_info returns; the result is kept, cached if result.get('success'),
\* and reset_errors is called
HotelFetched ==
    /\ gmaps_pc = "fetching"
    /\ hotels_to_fetch # <<>>
    /\ InfoReturned
    /\ LET info == IF responses[Len(responses)] = "valid"
                     THEN _format_hotel_data
                     ELSE _create_empty_result
       IN  /\ gmaps_results' = [gmaps_results EXCEPT ![Head(hotels_to_fetch)] = info]
           /\ api_cache' = IF Truthy(dict_get(info, "success"))
                           THEN api_cache \cup {Fetching}
                           ELSE api_cache
           /\ api_errors' = 0
           /\ fetched' = Append(fetched, [hotel |-> Fetching,
                                          extraction_status |-> info.extraction_status,
                                          errors_before |-> api_errors,
                                          errors_after |-> api_errors'])
           /\ fetched_ok' = IF info.extraction_status = "success"
                            THEN fetched_ok \cup {Fetching}
                            ELSE fetched_ok
    /\ hotels_to_fetch' = Tail(hotels_to_fetch)
    /\ responses' = <<>>
    /\ UNCHANGED <<passes, hotels_info, gmaps_pc>>
    /\ UNCHANGED <<limiterVars, hotelVars, parallelVars, sessionVars, cacheVars, extractorVars,
                   cventVars, callbackVars, moreVars>>

\* every hotel to fetch has been extracted: the results are returned
BatchReturns ==
    /\ gmaps_pc = "fetching"
    /\ hotels_to_fetch = <<>>
    /\ gmaps_pc' = "returned"
    /\ UNCHANGED <<passes, hotels_info, gmaps_results, hotels_to_fetch, responses, api_cache,
                   api_errors, fetched, fetched_ok>>
    /\ UNCHANGED <<limiterVars, hotelVars, parallelVars, sessionVars, cacheVars, extractorVars,
                   cventVars, callbackVars, moreVars>>

\* the cache as loaded from its snapshot, the limiter without errors
GmapsInit ==
    /\ CacheIdle
    /\ ExtractorIdle
    /\ CventIdle
    /\ LimiterIdle
    /\ HotelIdle
    /\ ParallelIdle
    /\ SessionIdle
    /\ CallbackIdle
    /\ MoreIdle
    /\ passes = 0
    /\ hotels_info = <<>>
    /\ gmaps_results = <<>>
    /\ hotels_to_fetch = <<>>
    /\ responses = <<>>
    /\ api_cache \in SUBSET Places
    /\ api_errors = 0
    /\ fetched = <<>>
    /\ fetched_ok = {}
    /\ gmaps_pc = "idle"

extract_hotels_batch ==
    \/ CallBatch
    \/ SearchPlace
    \/ HotelFetched
    \/ BatchReturns

SpecGmaps == GmapsInit /\ [][extract_hotels_batch]_vars

\* C25: the limiter's consecutive-error counter is reset to zero exactly on
\* observed success: in extract_hotels_batch, reset_errors is called after a
\* hotel's fetch if and only if that fetch returned a successful result (after
\* a fetch that failed the counter is what the fetch left).
C25_ResetOnSuccessOnly ==
    \A k \in DOMAIN fetched :
        fetched[k].errors_after =
            IF fetched[k].extraction_status = "success" THEN 0 ELSE fetched[k].errors_before

\* C26: after a request made for a hotel receives a 429 response,
\* extract_hotel_info sends no further request for that hotel during the same
\* pass.
C26_NoRequestAfter429 ==
    \A i \in DOMAIN responses : responses[i] = "429" => i = Len(responses)

\* C27: in extract_hotels_batch a hotel whose Google Maps fetch succeeds is
\* stored in the cache, so that a later call for the same hotel within the
\* TTL is answered from the cache, without acquire or the API.
C27_SuccessfulFetchCached ==
    /\ fetched_ok \subseteq api_cache
    /\ (gmaps_pc = "fetching" /\ hotels_to_fetch # <<>>) => Fetching \notin fetched_ok

(***************************************************************************)
(* The progress callback of ParallelHotelProcessor and                      *)
(* ParallelHotelProcessorDB.  One batch is run, then the run ends.  The     *)
(* run is [results, completed, errors, batch_result, pc]; `reference` is   *)
(* the same run, with the same hotel outcomes, whose callback returns.     *)
(***************************************************************************)

CbProcessors == {"sequential", "tracked", "db"}

\* callback(stats), or await callback(stats): it returns or raises an Exception
unguarded_callback(callback, raises) == IF raises THEN "Exception" ELSE "returned"

\* _safe_callback: the call is inside try ... except Exception, which logs
_safe_callback(callback, raises) ==
    LET outcome == IF callback.is_async
                   THEN (IF raises THEN "Exception" ELSE "returned")
                   ELSE (IF raises THEN "Exception" ELSE "returned")
    IN  IF outcome = "Exception" THEN "returned" ELSE outcome

NewRun == [results |-> <<>>, completed |-> 0, errors |-> 0, batch_result |-> "none",
           pc |-> "batch"]

\* an error result replaces or follows the hotel's result
WithError(r) ==
    [r EXCEPT !.results = Append(@, "error"), !.completed = @ + 1, !.errors = @ + 1]

WithResult(r) ==
    [r EXCEPT !.results = Append(@, "ok"), !.completed = @ + 1]

\* one hotel in the sequential mode of _process_batch_with_semaphore: the
\* callback is called inside the try whose except adds an error result
SequentialHotel(r, ok, called) ==
    IF ~ok THEN WithError(r)
    ELSE IF called = "returned" THEN WithResult(r)
    ELSE WithError(WithResult(r))

\* one hotel in the intra-batch mode: _process_single_hotel_tracked calls the
\* callback before it returns and re-raises what it catches; gather turns the
\* exception into an error result
TrackedHotel(r, ok, called) ==
    IF ok /\ called = "returned" THEN WithResult(r) ELSE WithError(r)

\* one hotel in ParallelHotelProcessorDB._process_batch: no callback
DbHotel(r, ok) == IF ok THEN WithResult(r) ELSE WithError(r)

\* number of results of a kind
CountOf(results, kind) == Cardinality({i \in DOMAIN results : results[i] = kind})

\* the batch is over.  tracked: the callback after the batch; what it raises
\* leaves the batch task, and gather(return_exceptions=True) drops the batch.
\* db: the callback after the save; what it raises is caught by the batch's
\* except, which returns every hotel as an error.
BatchOver(r, kind, called) ==
    IF kind = "sequential"
    THEN [r EXCEPT !.batch_result = r.results, !.pc = "final"]
    ELSE IF kind = "tracked"
    THEN [r EXCEPT !.batch_result = IF called = "returned" THEN r.results ELSE <<>>,
                   !.pc = "final"]
    ELSE [r EXCEPT !.batch_result = IF called = "returned"
                                    THEN [success |-> CountOf(r.results, "ok"),
                                          errors |-> CountOf(r.results, "error")]
                                    ELSE [success |-> 0, errors |-> Len(r.results)],
                   !.pc = "returned"]

\* process_hotels_parallel after gather: the final callback, then the return;
\* what the callback raises leaves process_hotels_parallel
FinalUpdate(r, called) ==
    [r EXCEPT !.pc = IF called = "returned" THEN "returned" ELSE "raised"]

\* the next hotel of the batch is processed and, where the code does so, the
\* callback is called
CbHotel ==
    /\ cb_processor \in CbProcessors
    /\ progress.pc = "batch"
    /\ cb_left > 0
    /\ cb_left' = cb_left - 1
    /\ \E ok \in BOOLEAN, raises \in BOOLEAN :
         /\ progress' = IF cb_processor = "sequential"
                        THEN SequentialHotel(progress, ok, _safe_callback(progress_callback, raises))
                        ELSE IF cb_processor = "tracked"
                        THEN TrackedHotel(progress, ok, _safe_callback(progress_callback, raises))
                        ELSE DbHotel(progress, ok)
         /\ reference' = IF cb_processor = "sequential"
                         THEN SequentialHotel(reference, ok, "returned")
                         ELSE IF cb_processor = "tracked"
                         THEN TrackedHotel(reference, ok, "returned")
                         ELSE DbHotel(reference, ok)
         /\ cb_raised' = IF ok /\ raises /\ cb_processor # "db"
                         THEN cb_raised + 1 ELSE cb_raised
    /\ UNCHANGED <<cb_processor, progress_callback>>
    /\ UNCHANGED <<limiterVars, hotelVars, parallelVars, sessionVars, cacheVars, extractorVars,
                   cventVars, gmapsVars, moreVars>>

\* the batch ends, with its callback where the code has one
CbBatchEnds ==
    /\ cb_processor \in CbProcessors
    /\ progress.pc = "batch"
    /\ cb_left = 0
    /\ \E raises \in BOOLEAN :
         /\ progress' = BatchOver(progress, cb_processor,
                                  _safe_callback(progress_callback, raises))
         /\ reference' = BatchOver(reference, cb_processor, "returned")
         /\ cb_raised' = IF raises /\ cb_processor # "sequential"
                         THEN cb_raised + 1 ELSE cb_raised
    /\ UNCHANGED <<cb_processor, progress_callback, cb_left>>
    /\ UNCHANGED <<limiterVars, hotelVars, parallelVars, sessionVars, cacheVars, extractorVars,
                   cventVars, gmapsVars, moreVars>>

\* the final update of process_hotels_parallel and its return
CbFinal ==
    /\ cb_processor \in CbProcessors
    /\ progress.pc = "final"
    /\ \E raises \in BOOLEAN :
         /\ progress' = FinalUpdate(progress, _safe_callback(progress_callback, raises))
         /\ reference' = FinalUpdate(reference, "returned")
         /\ cb_raised' = IF raises THEN cb_raised + 1 ELSE cb_raised
    /\ UNCHANGED <<cb_processor, progress_callback, cb_left>>
    /\ UNCHANGED <<limiterVars, hotelVars, parallelVars, sessionVars, cacheVars, extractorVars,
                   cventVars, gmapsVars, moreVars>>

CallbackInit ==
    /\ CacheIdle
    /\ ExtractorIdle
    /\ CventIdle
    /\ GmapsIdle
    /\ LimiterIdle
    /\ HotelIdle
    /\ ParallelIdle
    /\ SessionIdle
    /\ MoreIdle
    /\ cb_processor \in CbProcessors
    /\ progress_callback \in [is_async : BOOLEAN]
    /\ cb_left \in 1..MaxCbHotels
    /\ progress = NewRun
    /\ reference = NewRun
    /\ cb_raised = 0

CallbackNext ==
    \/ CbHotel
    \/ CbBatchEnds
    \/ CbFinal

SpecCallback == CallbackInit /\ [][CallbackNext]_vars

\* C28: an exception raised by the progress callback, synchronous or
\* asynchronous, in ParallelHotelProcessor or ParallelHotelProcessorDB is
\* never propagated: the run goes on, and its results and statistics are
\* those of the same run with a callback that does not raise.
C28_CallbackNeverPropagates ==
    cb_processor \in CbProcessors =>
        /\ progress.pc # "raised"
        /\ progress = reference

\* a run in which the callback raised has returned
C28_Witness ==
    /\ cb_processor \in CbProcessors
    /\ cb_raised > 1
    /\ progress.pc = "returned"

(***************************************************************************)
(* retry_on_error (supabase_client.py): the wrapper of a decorated          *)
(* operation.  func returns a value or raises an exception.                 *)
(***************************************************************************)

\* what func returns when it succeeds
RetryValues == {"id-1", "id-2"}

\* the loop never takes an attempt for the last
never_last(attempt) == FALSE

\* not (attempt < max_retries - 1)
is_last(attempt) == ~(attempt < max_retries - 1)

\* a call that is over
RetryCall(outcomes, slept, ret) == [outcomes |-> outcomes, slept |-> slept, ret |-> ret]

\* the wrapper is called: last_error = None, the loop starts
RetryStart ==
    /\ retry_pc = "idle"
    /\ Len(retry_calls) < MaxRetryCalls
    /\ retry_pc' = "attempt"
    /\ retry_attempt' = 0
    /\ retry_outcomes' = <<>>
    /\ retry_slept' = <<>>
    /\ UNCHANGED retry_calls
    /\ UNCHANGED <<baseVars, persistVars, faultVars>>

\* one turn of `for attempt in range(max_retries)`: func is invoked; its
\* value is returned, or its exception is caught and the wrapper sleeps,
\* raises SupabaseError at the last attempt, or leaves the loop and raises
\* last_error
RetryAttempt ==
    /\ retry_pc = "attempt"
    /\ \/ \E value \in RetryValues :
            /\ retry_calls' = Append(retry_calls,
                                     RetryCall(Append(retry_outcomes, "returned"), retry_slept,
                                               value))
            /\ retry_pc' = "idle"
            /\ UNCHANGED <<retry_attempt, retry_outcomes, retry_slept>>
       \/ LET outcomes == Append(retry_outcomes, "Exception")
          IN  IF is_last(retry_attempt)
              THEN /\ retry_calls' = Append(retry_calls,
                                            RetryCall(outcomes, retry_slept, "SupabaseError"))
                   /\ retry_pc' = "idle"
                   /\ UNCHANGED <<retry_attempt, retry_outcomes, retry_slept>>
              ELSE IF retry_attempt + 1 < max_retries
              THEN /\ retry_outcomes' = outcomes
                   /\ retry_pc' = "sleep"
                   /\ UNCHANGED <<retry_calls, retry_attempt, retry_slept>>
              ELSE /\ retry_calls' = Append(retry_calls,
                                            RetryCall(outcomes, retry_slept, "Exception"))
                   /\ retry_pc' = "idle"
                   /\ UNCHANGED <<retry_attempt, retry_outcomes, retry_slept>>
    /\ UNCHANGED <<baseVars, persistVars, faultVars>>

\* time.sleep(delay * (attempt + 1)) is over: the next turn of the loop
RetrySleep ==
    /\ retry_pc = "sleep"
    /\ retry_slept' = Append(retry_slept, delay * (retry_attempt + 1))
    /\ retry_attempt' = retry_attempt + 1
    /\ retry_pc' = "attempt"
    /\ UNCHANGED <<retry_calls, retry_outcomes>>
    /\ UNCHANGED <<baseVars, persistVars, faultVars>>

RetryInit ==
    /\ CacheIdle
    /\ ExtractorIdle
    /\ CventIdle
    /\ GmapsIdle
    /\ CallbackIdle
    /\ LimiterIdle
    /\ HotelIdle
    /\ ParallelIdle
    /\ SessionIdle
    /\ PersistIdle
    /\ FaultIdle
    /\ retry_calls = <<>>
    /\ retry_attempt = 0
    /\ retry_outcomes = <<>>
    /\ retry_slept = <<>>
    /\ retry_pc = "idle"

RetryNext ==
    \/ RetryStart
    \/ RetryAttempt
    \/ RetrySleep

SpecRetry == RetryInit /\ [][RetryNext]_vars

\* every attempt of the call failed
AllFailed(call) == \A i \in DOMAIN call.outcomes : call.outcomes[i] = "Exception"

\* C33: a call of an operation decorated with retry_on_error(max_retries=3)
\* invokes the operation at most 3 times, stops at the first attempt that
\* succeeds and returns its value, and raises SupabaseError exactly when all
\* 3 attempts fail.
C33_RetryAtMostThreeTimes ==
    /\ Len(retry_outcomes) < max_retries
    /\ \A c \in DOMAIN retry_calls :
         LET call == retry_calls[c]
             n == Len(call.outcomes)
         IN  /\ n \in 1..max_retries
             /\ \A i \in 1..(n - 1) : call.outcomes[i] = "Exception"
             /\ call.ret \in RetryValues <=> call.outcomes[n] = "returned"
             /\ call.ret = "SupabaseError" <=> (n = max_retries /\ AllFailed(call))
             /\ call.ret \in RetryValues \cup {"SupabaseError"}

\* a call that succeeded at its third attempt and a call that failed three times
C33_Witness ==
    /\ \E c \in DOMAIN retry_calls :
         /\ retry_calls[c].ret \in RetryValues
         /\ Len(retry_calls[c].outcomes) = max_retries
    /\ \E c \in DOMAIN retry_calls :
         /\ retry_calls[c].ret = "SupabaseError"
         /\ retry_calls[c].slept = <<1, 2>>

(***************************************************************************)
(* One batch through _process_and_save_batch (parallel_processor_db.py):    *)
(* prepare_hotels_batch, then process_batch_results, which persists each    *)
(* result with process_hotel_extraction and                                 *)
(* insert_hotel_with_rooms_transaction.  A store call stands for the        *)
(* decorated operation: it succeeds or raises after its retries.            *)
(* The row inserted for the i-th hotel of the batch has id i.               *)
(***************************************************************************)

\* what the sources gave for a hotel: rooms from Cvent, Google Maps data, website data
SourceData == [cvent : BOOLEAN, gmaps : BOOLEAN, website : BOOLEAN]

NewRow == [exists |-> FALSE, status |-> "pending", rooms |-> FALSE, gmaps |-> FALSE,
           website |-> FALSE]

\* for i, hotel in enumerate(batch): if i < len(hotel_ids): hotel['hotel_id'] = hotel_ids[i]
assign_hotel_ids(hotel_ids, n) ==
    [i \in 1..n |-> IF i <= Len(hotel_ids) THEN hotel_ids[i] ELSE 0]

\* the result being persisted, its data and the row its hotel_id names
TxData == tx_hotels[tx_index]

TxRow == tx_ids[tx_index]

\* the next call of insert_hotel_with_rooms_transaction after `step`
StepAfter(step, data) ==
    IF step = "status" /\ data.cvent THEN "rooms"
    ELSE IF step \in {"status", "rooms"} /\ data.gmaps THEN "gmaps"
    ELSE IF step \in {"status", "rooms", "gmaps"} /\ data.website THEN "website"
    ELSE "return"

\* process_batch_results goes on with the next result
NextResult == IF tx_index = Len(tx_hotels) THEN "done" ELSE "result"

\* prepare_hotels_batch: insert_hotel for each hotel, the failures are logged
\* and skipped; then the ids are put into the hotels
TxPrepare ==
    /\ tx_pc = "prepare"
    /\ \E inserted \in [DOMAIN tx_hotels -> BOOLEAN] :
         LET hotel_ids == SelectSeq([i \in DOMAIN tx_hotels |-> i], LAMBDA i : inserted[i])
         IN  /\ tx_rows' = [i \in DOMAIN tx_hotels |-> [NewRow EXCEPT !.exists = inserted[i]]]
             /\ tx_ids' = assign_hotel_ids(hotel_ids, Len(tx_hotels))
    /\ tx_index' = 1
    /\ tx_pc' = "result"
    /\ UNCHANGED <<tx_hotels, tx_counts>>
    /\ UNCHANGED <<baseVars, retryVars, faultVars>>

\* process_batch_results: a result without hotel_id is counted as an error
TxSkip ==
    /\ tx_pc = "result"
    /\ TxRow = 0
    /\ tx_counts' = [tx_counts EXCEPT !.errors = @ + 1]
    /\ tx_index' = tx_index + 1
    /\ tx_pc' = NextResult
    /\ UNCHANGED <<tx_hotels, tx_ids, tx_rows>>
    /\ UNCHANGED <<baseVars, retryVars, faultVars>>

\* insert_hotel_with_rooms_transaction, 1: update_hotel_status(completed)
TxUpdateStatus ==
    /\ tx_pc = "result"
    /\ TxRow # 0
    /\ \/ /\ tx_rows' = [tx_rows EXCEPT ![TxRow].status = "completed"]
          /\ tx_pc' = StepAfter("status", TxData)
       \/ /\ tx_pc' = "except"
          /\ UNCHANGED tx_rows
    /\ UNCHANGED <<tx_hotels, tx_ids, tx_index, tx_counts>>
    /\ UNCHANGED <<baseVars, retryVars, faultVars>>

\* 2: insert_meeting_rooms, one insert for all the rooms
TxInsertRooms ==
    /\ tx_pc = "rooms"
    /\ \/ /\ tx_rows' = [tx_rows EXCEPT ![TxRow].rooms = TRUE]
          /\ tx_pc' = StepAfter("rooms", TxData)
       \/ /\ tx_pc' = "except"
          /\ UNCHANGED tx_rows
    /\ UNCHANGED <<tx_hotels, tx_ids, tx_index, tx_counts>>
    /\ UNCHANGED <<baseVars, retryVars, faultVars>>

\* 3: insert_gmaps_data
TxInsertGmaps ==
    /\ tx_pc = "gmaps"
    /\ \/ /\ tx_rows' = [tx_rows EXCEPT ![TxRow].gmaps = TRUE]
          /\ tx_pc' = StepAfter("gmaps", TxData)
       \/ /\ tx_pc' = "except"
          /\ UNCHANGED tx_rows
    /\ UNCHANGED <<tx_hotels, tx_ids, tx_index, tx_counts>>
    /\ UNCHANGED <<baseVars, retryVars, faultVars>>

\* 4: insert_website_data, whose failure is printed and ignored
TxInsertWebsite ==
    /\ tx_pc = "website"
    /\ \/ tx_rows' = [tx_rows EXCEPT ![TxRow].website = TRUE]
       \/ UNCHANGED tx_rows
    /\ tx_pc' = "return"
    /\ UNCHANGED <<tx_hotels, tx_ids, tx_index, tx_counts>>
    /\ UNCHANGED <<baseVars, retryVars, faultVars>>

\* the transaction returns True, process_hotel_extraction returns it and
\* process_batch_results counts a success
TxReturnTrue ==
    /\ tx_pc = "return"
    /\ tx_counts' = [tx_counts EXCEPT !.success = @ + 1]
    /\ tx_index' = tx_index + 1
    /\ tx_pc' = NextResult
    /\ UNCHANGED <<tx_hotels, tx_ids, tx_rows>>
    /\ UNCHANGED <<baseVars, retryVars, faultVars>>

\* the except of the transaction: update_hotel_status(failed), whose own
\* failure is passed over; then SupabaseError is raised
TxMarkFailed ==
    /\ tx_pc = "except"
    /\ \/ tx_rows' = [tx_rows EXCEPT ![TxRow].status = "failed"]
       \/ UNCHANGED tx_rows
    /\ tx_pc' = "outer"
    /\ UNCHANGED <<tx_hotels, tx_ids, tx_index, tx_counts>>
    /\ UNCHANGED <<baseVars, retryVars, faultVars>>

\* the except of process_hotel_extraction: update_hotel_status(failed) again,
\* return False, and process_batch_results counts an error
TxReturnFalse ==
    /\ tx_pc = "outer"
    /\ \/ tx_rows' = [tx_rows EXCEPT ![TxRow].status = "failed"]
       \/ UNCHANGED tx_rows
    /\ tx_counts' = [tx_counts EXCEPT !.errors = @ + 1]
    /\ tx_index' = tx_index + 1
    /\ tx_pc' = NextResult
    /\ UNCHANGED <<tx_hotels, tx_ids>>
    /\ UNCHANGED <<baseVars, retryVars, faultVars>>

\* the process dies between two store calls
TxCrash ==
    /\ tx_pc \in {"rooms", "gmaps", "website", "return", "except", "outer"}
    /\ tx_pc' = "crashed"
    /\ UNCHANGED <<tx_hotels, tx_ids, tx_rows, tx_index, tx_counts>>
    /\ UNCHANGED <<baseVars, retryVars, faultVars>>

PersistInit ==
    /\ CacheIdle
    /\ ExtractorIdle
    /\ CventIdle
    /\ GmapsIdle
    /\ CallbackIdle
    /\ LimiterIdle
    /\ HotelIdle
    /\ ParallelIdle
    /\ SessionIdle
    /\ RetryIdle
    /\ FaultIdle
    /\ \E n \in 1..MaxTxHotels : tx_hotels \in [1..n -> SourceData]
    /\ tx_ids = <<>>
    /\ tx_rows = <<>>
    /\ tx_index = 0
    /\ tx_counts = [success |-> 0, errors |-> 0]
    /\ tx_pc = "prepare"

_process_and_save_batch ==
    \/ TxPrepare
    \/ TxSkip
    \/ TxUpdateStatus
    \/ TxInsertRooms
    \/ TxInsertGmaps
    \/ TxInsertWebsite
    \/ TxReturnTrue
    \/ TxMarkFailed
    \/ TxReturnFalse
    \/ TxCrash

SpecPersist == PersistInit /\ [][_process_and_save_batch]_vars

\* the results whose transaction has started
Started ==
    {i \in DOMAIN tx_ids :
        /\ tx_ids[i] # 0
        /\ i < tx_index \/ (i = tx_index /\ tx_pc # "result")}

\* C34: insert_hotel_with_rooms_transaction is all-or-nothing: in every
\* reachable store state, also after a failure or a crash part-way, a hotel
\* whose extraction_status is 'completed' has all its meeting-room and
\* Google Maps rows persisted, and a hotel marked 'failed' by a failed
\* transaction has none of the rows of that transaction persisted.
C34_TransactionAllOrNothing ==
    \A i \in Started :
        LET row == tx_rows[tx_ids[i]]
        IN  /\ row.status = "completed" =>
                  /\ tx_hotels[i].cvent => row.rooms
                  /\ tx_hotels[i].gmaps => row.gmaps
            /\ row.status = "failed" => (~row.rooms /\ ~row.gmaps)

\* C37: in _process_and_save_batch each extraction result is persisted under
\* the store id of the very hotel it was extracted for, also when the
\* insertion of some hotel of the batch fails: a result is never written to
\* another hotel's row.
C37_ResultUnderItsOwnId ==
    \A i \in DOMAIN tx_ids : tx_ids[i] \in {0, i}

\* the hotels of the batch for which at least one source produced data
WithData ==
    {i \in DOMAIN tx_hotels :
        tx_hotels[i].cvent \/ tx_hotels[i].gmaps \/ tx_hotels[i].website}

\* C39: the 'successful' count returned by process_hotels_to_database is the
\* number of submitted hotels for which at least one source produced data,
\* and a hotel whose every source failed is not persisted with
\* extraction_status 'completed'.
C39_SuccessfulMeansData ==
    tx_pc = "done" =>
        /\ tx_counts.success = Cardinality(WithData)
        /\ \A i \in DOMAIN tx_hotels \ WithData :
              tx_ids[i] # 0 => tx_rows[tx_ids[i]].status # "completed"

(***************************************************************************)
(* detect_and_fix_stuck_sessions over several sessions, with store errors  *)
(* (database_service.py 386-450, 452-577)                                  *)
(*                                                                         *)
(* The whole loop of the watchdog is inside one try/except that returns 0; *)
(* finalize_session has its own try/except around all its store calls, and *)
(* get_session_statistics returns {} when its read raises.                 *)
(***************************************************************************)

StuckSessions ==
    [status : {"processing"}, total_hotels : 0..MaxRows, processed_hotels : {0},
     idle : {InactivityThreshold, Saturated}]

ErrorBudget == Len(store_errors) < MaxStoreErrors

StoreRaises(session_id, call) ==
    store_errors' = Append(store_errors, [sid |-> session_id, at |-> call])

reconcileFrame == <<limiterVars, hotelVars, parallelVars, cacheVars, extractorVars,
                    cventVars, gmapsVars, callbackVars, retryVars, persistVars>>

\* the select of the 'processing' sessions raises: except Exception, return 0
SelectFails ==
    /\ ErrorBudget
    /\ wd.pc = "idle"
    /\ StoreRaises(0, "select")
    /\ UNCHANGED <<sessionVars, reconcileFrame>>

\* the loop goes on with the next session after the exception
loop_continues(queue) == [pc |-> "scan", queue |-> Tail(queue)]

\* except Exception as e: ... return 0, the sessions left in the loop are
\* not looked at
run_aborted(queue) == [pc |-> "idle", queue |-> <<>>]

\* the watchdog's own read of the hotels of an inactive session raises
\* (lines 409-412), outside any finalize_session call
ReadFails ==
    /\ ErrorBudget
    /\ wd.pc = "scan"
    /\ wd.queue # <<>>
    /\ _is_session_truly_inactive(Head(wd.queue).idle)
    /\ StoreRaises(Head(wd.queue).sid, "hotels")
    /\ wd' = run_aborted(wd.queue)
    /\ UNCHANGED <<sessions, hotel_rows, schedVars, fin, audit, reconcileFrame>>

\* a store call of finalize_session raises (update_session_status after its
\* retries): the exception is logged, finalize_session returns None and the
\* watchdog counts the session as fixed and goes on
FinalizeFails ==
    /\ ErrorBudget
    /\ fin["watchdog"].pc \in {"hotels", "session", "status", "total", "final"}
    /\ StoreRaises(fin["watchdog"].sid, fin["watchdog"].pc)
    /\ fin' = [fin EXCEPT !["watchdog"] = NoCall]
    /\ wd' = loop_continues(wd.queue)
    /\ UNCHANGED <<sessions, hotel_rows, schedVars, audit, reconcileFrame>>

\* get_session_statistics: the read raises and {} is returned, so that
\* stats_processed is 0
StatsFails ==
    /\ ErrorBudget
    /\ fin["watchdog"].pc = "stats"
    /\ StoreRaises(fin["watchdog"].sid, "stats")
    /\ LET call == fin["watchdog"]
       IN  fin' = [fin EXCEPT !["watchdog"].pc = "final",
                              !["watchdog"].processed_hotels =
                                  normal_processed(call.processed_hotels, 0,
                                                   call.actual_count, call.success)]
    /\ UNCHANGED <<sessions, hotel_rows, schedVars, wd, audit, reconcileFrame>>

ReconcileInit ==
    /\ CacheIdle
    /\ ExtractorIdle
    /\ CventIdle
    /\ GmapsIdle
    /\ CallbackIdle
    /\ RetryIdle
    /\ PersistIdle
    /\ LimiterIdle
    /\ HotelIdle
    /\ ParallelIdle
    /\ sessions \in [1..MaxStuck -> StuckSessions]
    /\ hotel_rows \in [1..MaxStuck -> RowLists]
    /\ SchedulerAbsent
    /\ fin = [caller \in Callers |-> NoCall]
    /\ wd = [pc |-> "idle", queue |-> <<>>]
    /\ audit = [s \in DOMAIN sessions |-> NoAudit(sessions[s])]
    /\ store_errors = <<>>

ReconcileNext ==
    \/ detect_and_fix_stuck_sessions
    \/ SelectFails
    \/ ReadFails
    \/ FinalizeFails
    \/ StatsFails

SpecReconcile == ReconcileInit /\ [][ReconcileNext]_vars

\* the sessions during whose reconciliation a store call has raised
Errored(errors) == {errors[k].sid : k \in DOMAIN errors}

\* a run of the watchdog ends: it returns its count, or 0 after an exception
RunEnds == wd.pc # "idle" /\ wd'.pc = "idle"

\* C40: a store error raised while the watchdog reconciles one session does
\* not prevent the same run from reconciling the other inactive 'processing'
\* sessions: when the run is over, every inactive session other than those
\* whose reconciliation raised is terminal.
C40_ErrorIsolatedPerSession ==
    [][RunEnds =>
          \A s \in DOMAIN sessions :
              (sessions'[s].status = "processing"
                  /\ _is_session_truly_inactive(sessions'[s].idle))
                  => s \in Errored(store_errors')]_vars

====
